---- MODULE Spec2Model ----
(***************************************************************************)
(* Model of the industrial IoT DAQ pipeline: the OPC UA acquisition client *)
(* (daq_system/opc_client.py) and the DAQ orchestrator                     *)
(* (daq_system/main.py).                                                   *)
(*                                                                         *)
(* Numbers.  Sensor values are floats in the source.  The model keeps them *)
(* as integers counted in tenths of the sensor's unit (45.0 degrees is     *)
(* 450, 0.3 bar is 3), so every threshold of the source is an integer and  *)
(* comparisons are exact.  A moving average is a quotient of a sum of at   *)
(* most five values; it is kept in sixtieths of a tenth (sum * 60 \div n   *)
(* is exact for n in 1..5).  Floating-point rounding is not modelled.      *)
(* A timestamp is a logical clock value.  A reading is a record; the       *)
(* optional key 'anomaly' of the Python dict is the field anomaly, with "" *)
(* for an absent key.                                                      *)
(***************************************************************************)
EXTENDS Integers, Sequences, FiniteSets, TLC

VARIABLES
    \* ---- configuration (settings.daq), fixed during a run
    batch_size,         \* settings.daq.batch_size
    max_buffer_size,    \* settings.daq.max_buffer_size
    acquisition_interval,   \* settings.daq.acquisition_interval, in ms
    min_quality_threshold,  \* settings.daq.min_quality_threshold
    \* ---- IndustrialOPCClient
    data_buffer,        \* self.data_buffer
    next_ts,            \* logical clock: the next timestamp handed out
    store_call,         \* the last store_readings call: what it got and did
    connected,          \* self.connected
    sensor_nodes,       \* self.sensor_nodes, in the dict's insertion order
    client_stats,       \* self.stats
    conn,               \* the connect() call in progress or last returned
    read_call,          \* the last read_sensor_data call: the bus and its result
    \* ---- IndustrialDAQSystem
    stats,              \* self.stats (the counters)
    data_history,       \* self.data_history
    anomaly_buffer,     \* self.anomaly_buffer
    cycle,              \* the last acquisition_cycle: its stages and result
    running,            \* self.running
    paused,             \* self.paused
    \* ---- IndustrialDAQSystem.run
    pc,                 \* where the loop is: "cycle", "cooldown", "sleep"
    consecutive_failures,   \* the local counter of run()
    last_sleep,         \* the last time.sleep of the loop: why, how long
    failed_streak,      \* history: cycles that failed since the last success
    \* ---- calculate_moving_average called on its own (SpecAverage)
    avg_call,           \* the call: sensor type, current value, result
    \* ---- validate_readings called on its own (SpecValidate)
    validate_in,        \* the list handed to validate_readings
    validate_out,       \* the list it returned
    validate_done,      \* whether the call has been made
    \* ---- _calculate_severity called on its own (SpecSeverity)
    severity_call,      \* the call: the reading and the severity returned
    \* ---- calculate_realistic_value called on its own (SpecGenerator)
    generated,          \* the last call: sensor, elapsed time, what it returned
    \* ---- discover_sensor_nodes called on its own (SpecDiscover)
    discover_call,      \* the call: the address space browsed, what it returned
    \* ---- IndustrialOPCServer (the simulator) and a client reading it
    server_nodes,       \* the Value, Quality, Status, Timestamp nodes of a sensor
    sim,                \* update_sensor_values: its tick and its next set_value
    reader,             \* read_sensor_data on that sensor: its next get_value
    \* ---- shutdown() and disconnect()
    teardown,           \* the last such call: the state it found, what it did
    \* ---- main()
    main_proc           \* where main() is, what initialize returned, how it exits

cfgVars == <<batch_size, max_buffer_size, acquisition_interval,
             min_quality_threshold>>

storeVars == <<data_buffer, next_ts, store_call>>

busVars == <<connected, sensor_nodes, client_stats, conn, read_call>>

daqVars == <<stats, data_history, anomaly_buffer, cycle, avg_call>>

loopVars == <<running, paused, pc, consecutive_failures,
              last_sleep, failed_streak>>

validateVars == <<validate_in, validate_out, validate_done>>

callVars == <<severity_call, generated, discover_call>>

simVars == <<server_nodes, sim, reader>>

lifeVars == <<teardown, main_proc>>

sideVars == <<callVars, simVars, lifeVars>>

vars == <<batch_size, max_buffer_size, acquisition_interval,
          min_quality_threshold, data_buffer, next_ts, store_call,
          connected, sensor_nodes, client_stats, conn, read_call,
          stats, data_history, anomaly_buffer, cycle, avg_call,
          running, paused, pc, consecutive_failures,
          last_sleep, failed_streak,
          validate_in, validate_out, validate_done,
          severity_call, generated, discover_call, server_nodes, sim, reader, teardown,
          main_proc>>

(***************************************************************************)
(* Configuration defaults, daq_system/config.py (values in tenths).        *)
(***************************************************************************)
temperature_max == 400
temperature_min == 180
pressure_max == 20
pressure_min == 9
vibration_max == 25
default_min_quality_threshold == 80
default_acquisition_interval == 5000

(***************************************************************************)
(* Constants of IndustrialOPCClient.connect (delays in milliseconds).      *)
(***************************************************************************)
max_retries == 5
initial_retry_delay == 2000

(***************************************************************************)
(* Constants of IndustrialDAQSystem (thresholds in tenths).                *)
(***************************************************************************)
moving_average_window == 5
history_cap == 1000
rapid_change_window == 10
anomaly_retention == 100
max_consecutive_failures == 5
cooldown_seconds == 30
error_pause_seconds == 5
paused_tick_seconds == 1

(***************************************************************************)
(* Bounds of the model.                                                    *)
(***************************************************************************)
MaxValidateLen == 2
MaxBatchSize == 3
MaxBufferSize == 3
MaxNewReadings == 2
MaxStoreCalls == 4
MaxConnectCalls == 3
MaxReadCalls == 2
MaxAverageHistory == 6
MaxCycles == 6
MaxPipelineCycles == 3
MaxTicks == 2
MaxBusReads == 2
MaxTeardownCalls == 2
MaxRaisedCycles == 1

MaxPauseCycles == 3
MaxStopCycles == 3
MaxSensorFolders == 2
MaxAnomalyCycles == 2
MaxElapsedSteps == 16

MaxProcessCalls == 2

MaxRetentionCycles == 2

MaxRetryStamps == 5

MaxMainCycles == 2

\* The sensor types read from the bus, and one type the range gate ignores.
SensorTypes == {"temperature", "pressure", "vibration"}

\* opc_client.py:354-369
get_sensor_unit(sensor_type) ==
    CASE sensor_type = "temperature" -> "C"
      [] sensor_type = "pressure" -> "bar"
      [] sensor_type = "vibration" -> "mm/s"
      [] OTHER -> "unknown"

\* opc_client.py:326-335  the reading dict (machine_id and location, the
\* same in every reading, are left out)
ReadingOf(ts, st, v, q, status) ==
    [timestamp |-> ts, sensor_type |-> st, value |-> v,
     unit |-> get_sensor_unit(st), quality |-> q, status |-> status,
     anomaly |-> ""]

Reading(ts, st, v, q) == ReadingOf(ts, st, v, q, "OK")

\* The sequences over S of length at most n.
SeqsUpTo(S, n) == UNION {[1..k -> S] : k \in 0..n}

(***************************************************************************)
(* The values a component's variables hold in a specification that does    *)
(* not exercise it.                                                        *)
(***************************************************************************)
NoStoreCall ==
    [called |-> FALSE, pre |-> <<>>, readings |-> <<>>, db_ok |-> FALSE,
     attempted |-> FALSE, ret |-> TRUE]

StoreIdle ==
    /\ batch_size = 1
    /\ max_buffer_size = 1
    /\ acquisition_interval = default_acquisition_interval
    /\ min_quality_threshold = default_min_quality_threshold
    /\ data_buffer = <<>>
    /\ next_ts = 1
    /\ store_call = NoStoreCall

\* opc_client.py:49-55  self.stats after construction
NewClientStats ==
    [total_readings |-> 0, successful_readings |-> 0, failed_readings |-> 0,
     connection_attempts |-> 0]

NoConnectCall ==
    [pc |-> "idle", attempt |-> 0, retry_delay |-> 0, sleeps |-> <<>>,
     ret |-> "none", log |-> <<>>, attempts_before |-> 0, calls |-> 0]

NoReadCall ==
    [called |-> FALSE, calls |-> 0, connected |-> FALSE, failed |-> {},
     stats_before |-> NewClientStats, readings |-> <<>>, now |-> 0,
     bus |-> [t \in SensorTypes |->
                [value_ok |-> FALSE, value |-> 0, quality_ok |-> FALSE,
                 quality |-> 0, status_ok |-> FALSE, status |-> "",
                 ts_ok |-> FALSE, ts |-> 0]]]

BusIdle ==
    /\ connected = FALSE
    /\ sensor_nodes = <<>>
    /\ client_stats = NewClientStats
    /\ conn = NoConnectCall
    /\ read_call = NoReadCall

\* main.py:50-59  self.stats after construction (the counters)
NewStats ==
    [total_cycles |-> 0, successful_cycles |-> 0, failed_cycles |-> 0,
     total_data_points |-> 0, anomalies_detected |-> 0]

NoCycle ==
    [ran |-> FALSE, stage |-> "none", history_before |-> <<>>,
     readings |-> <<>>, validated |-> <<>>, processed |-> <<>>,
     anomalies |-> <<>>, anomaly_rows |-> <<>>, db_calls |-> <<>>,
     storage_success |-> FALSE, ret |-> FALSE]

NoAverageCall ==
    [called |-> FALSE, sensor_type |-> "temperature", current_value |-> 0,
     result |-> 0]

DaqIdle ==
    /\ stats = NewStats
    /\ data_history = <<>>
    /\ anomaly_buffer = <<>>
    /\ cycle = NoCycle
    /\ avg_call = NoAverageCall

NoSleep == [kind |-> "none", seconds |-> 0]

LoopIdle ==
    /\ running = FALSE
    /\ paused = FALSE
    /\ pc = "idle"
    /\ consecutive_failures = 0
    /\ last_sleep = NoSleep
    /\ failed_streak = 0

ValidateIdle ==
    /\ validate_in = <<>>
    /\ validate_out = <<>>
    /\ validate_done = FALSE

NoSeverityCall == [called |-> FALSE, reading |-> <<>>, severity |-> ""]

\* no value computed yet
NoGenerated ==
    [sensor |-> "none", step |-> 0, raw |-> 0, value |-> 0, quality |-> 0,
     status |-> "", min_value |-> 0, max_value |-> 0]

NoDiscoverCall ==
    [called |-> FALSE, connected |-> FALSE, ret |-> FALSE,
     topology |-> [raises |-> FALSE, machine_folder |-> FALSE,
                   sensors_folder |-> FALSE, sensors |-> <<>>]]

CallIdle ==
    /\ severity_call = NoSeverityCall
    /\ generated = NoGenerated
    /\ discover_call = NoDiscoverCall

\* opc_server.py:108-165  the values the nodes are created with
InitialNodes == [value |-> 250, quality |-> 100, status |-> "OK", timestamp |-> 1]

NoReader ==
    [pos |-> "value", value |-> 0, quality |-> 0, status |-> "",
     timestamp |-> 0, done |-> FALSE, reading |-> <<>>, reads |-> 0]

SimIdle ==
    /\ server_nodes = InitialNodes
    /\ sim = [tick |-> 0, pos |-> "stopped"]
    /\ reader = NoReader

NoTeardown ==
    [op |-> "none", pre_buffer |-> <<>>, pre_connected |-> FALSE,
     log |-> <<>>, calls |-> 0]

NoProc ==
    [pc |-> "none", created |-> FALSE, init_ret |-> "none",
     init_stage |-> "none", connect_ret |-> "none", discover_ret |-> "none",
     entered_run |-> FALSE, path |-> "none", shutdown_calls |-> 0]

LifeIdle == teardown = NoTeardown /\ main_proc = NoProc

SideIdle == CallIdle /\ SimIdle /\ LifeIdle

(***************************************************************************)
(* IndustrialDAQSystem.validate_readings                                   *)
(***************************************************************************)
LowQualityOffByOne(quality) == quality < min_quality_threshold - 1

\* main.py:199  quality < settings.daq.min_quality_threshold
LowQuality(quality) == quality < min_quality_threshold

RangeTagDropsVibration(sensor_type, value) ==
    IF sensor_type = "temperature"
    THEN IF ~(temperature_min <= value /\ value <= temperature_max)
         THEN "OUT_OF_RANGE" ELSE ""
    ELSE IF sensor_type = "pressure"
    THEN IF ~(pressure_min <= value /\ value <= pressure_max)
         THEN "OUT_OF_RANGE" ELSE ""
    ELSE ""

\* main.py:204-221  the tag the range gate sets, "" when it sets none
RangeTag(sensor_type, value) ==
    IF sensor_type = "temperature"
    THEN IF ~(temperature_min <= value /\ value <= temperature_max)
         THEN "OUT_OF_RANGE" ELSE ""
    ELSE IF sensor_type = "pressure"
    THEN IF ~(pressure_min <= value /\ value <= pressure_max)
         THEN "OUT_OF_RANGE" ELSE ""
    ELSE IF sensor_type = "vibration"
    THEN IF value > vibration_max THEN "HIGH_VIBRATION" ELSE ""
    ELSE ""

validate_readings_keeps_all(readings) == readings

\* main.py:192-228  the loop over the readings: a low-quality reading is
\* skipped (continue), any other is tagged when out of range and appended.
validate_readings(readings) ==
    LET RECURSIVE loop(_, _)
        loop(i, validated) ==
            IF i > Len(readings) THEN validated
            ELSE LET reading == readings[i]
                     tag == RangeTag(reading.sensor_type, reading.value)
                 IN  IF LowQuality(reading.quality)
                     THEN loop(i + 1, validated)
                     ELSE loop(i + 1,
                               Append(validated,
                                      IF tag # ""
                                      THEN [reading EXCEPT !.anomaly = tag]
                                      ELSE reading))
    IN  loop(1, <<>>)

(***************************************************************************)
(* SensorDataManager.insert_batch_readings, database.py:215-276: the       *)
(* number of rows inserted; 0 for an empty list and when the insert raises *)
(* (db_ok false: no connection, a failed statement).                       *)
(***************************************************************************)
insert_batch_readings(readings, db_ok) ==
    IF readings = <<>> THEN 0
    ELSE IF db_ok THEN Len(readings) ELSE 0

(***************************************************************************)
(* IndustrialOPCClient.store_readings, opc_client.py:371-416.              *)
(***************************************************************************)
FlushDueStrict(len) == len > batch_size

\* opc_client.py:390  len(self.data_buffer) >= settings.daq.batch_size
FlushDue(len) == len >= batch_size

LimitBufferKeepsOldest(buffer) ==
    IF Len(buffer) > max_buffer_size
    THEN SubSeq(buffer, 1, max_buffer_size)
    ELSE buffer

\* opc_client.py:403-407  the buffer after a failed flush
LimitBuffer(buffer) ==
    IF Len(buffer) > max_buffer_size
    THEN LET overflow == Len(buffer) - max_buffer_size
         IN  SubSeq(buffer, overflow + 1, Len(buffer))
    ELSE buffer

StoreResultNewOnly(buffer, readings, db_ok) ==
    IF readings = <<>>
    THEN [buffer |-> buffer, ret |-> TRUE, attempted |-> FALSE, batch |-> <<>>]
    ELSE LET extended == buffer \o readings IN
         IF FlushDue(Len(extended))
         THEN IF insert_batch_readings(readings, db_ok) > 0
              THEN [buffer |-> buffer, ret |-> TRUE,
                    attempted |-> TRUE, batch |-> readings]
              ELSE [buffer |-> LimitBuffer(extended), ret |-> FALSE,
                    attempted |-> TRUE, batch |-> readings]
         ELSE [buffer |-> extended, ret |-> TRUE,
               attempted |-> FALSE, batch |-> <<>>]

\* What one call does to a buffer: the buffer it leaves, the value it
\* returns, whether it attempted a batch insert and the batch it handed over.
StoreResult(buffer, readings, db_ok) ==
    IF readings = <<>>
    THEN [buffer |-> buffer, ret |-> TRUE, attempted |-> FALSE, batch |-> <<>>]
    ELSE LET extended == buffer \o readings IN
         IF FlushDue(Len(extended))
         THEN IF insert_batch_readings(extended, db_ok) > 0
              THEN [buffer |-> <<>>, ret |-> TRUE,
                    attempted |-> TRUE, batch |-> extended]
              ELSE [buffer |-> LimitBuffer(extended), ret |-> FALSE,
                    attempted |-> TRUE, batch |-> extended]
         ELSE [buffer |-> extended, ret |-> TRUE,
               attempted |-> FALSE, batch |-> <<>>]

(***************************************************************************)
(* IndustrialOPCClient.connect, opc_client.py:59-104.  One step is one     *)
(* pass of the for loop: the attempt (the client is created, connected and *)
(* verified, or one of these raises) and, when it failed, the handler with *)
(* its sleep.  conn.log holds the outcomes of the attempts of the call in  *)
(* progress, conn.sleeps the delays it slept, conn.ret what it returned.   *)
(***************************************************************************)
MoreRetriesOffByOne(attempt) == attempt < max_retries

\* opc_client.py:98  attempt < max_retries - 1
MoreRetries(attempt) == attempt < max_retries - 1

NextRetryDelayDoubled(retry_delay) == retry_delay * 2

\* opc_client.py:101  retry_delay *= 1.5, in ms
NextRetryDelay(retry_delay) == (retry_delay * 3) \div 2

ConnectCall ==
    /\ conn.pc = "idle"
    /\ conn.calls < MaxConnectCalls
    /\ conn' = [pc |-> "attempt", attempt |-> 0,
                retry_delay |-> initial_retry_delay, sleeps |-> <<>>,
                ret |-> "none", log |-> <<>>,
                attempts_before |-> client_stats.connection_attempts,
                calls |-> conn.calls + 1]
    /\ UNCHANGED <<connected, sensor_nodes, client_stats, read_call,
                   cfgVars, storeVars, daqVars, loopVars, validateVars, sideVars>>

ConnectAttempt ==
    \E ok \in BOOLEAN :
        /\ conn.pc = "attempt"
        /\ client_stats' =
               [client_stats EXCEPT !.connection_attempts = @ + 1]
        /\ IF ok
           THEN /\ connected' = TRUE
                /\ conn' = [conn EXCEPT !.pc = "idle", !.ret = "True",
                                        !.log = Append(@, TRUE)]
           ELSE /\ connected' = connected
                /\ conn' =
                     IF MoreRetries(conn.attempt)
                     THEN \* sleep, lengthen the delay, next pass; the for
                          \* loop running out would return None
                          [conn EXCEPT
                             !.sleeps = Append(@, conn.retry_delay),
                             !.retry_delay = NextRetryDelay(@),
                             !.attempt = @ + 1,
                             !.log = Append(@, FALSE),
                             !.pc = IF conn.attempt + 1 < max_retries
                                    THEN "attempt" ELSE "idle",
                             !.ret = IF conn.attempt + 1 < max_retries
                                     THEN "none" ELSE "None"]
                     ELSE [conn EXCEPT !.pc = "idle", !.ret = "False",
                                       !.log = Append(@, FALSE)]
        /\ UNCHANGED <<sensor_nodes, read_call,
                       cfgVars, storeVars, daqVars, loopVars, validateVars, sideVars>>

(***************************************************************************)
(* SpecConnect: connect() called up to MaxConnectCalls times on one        *)
(* client, every attempt succeeding or failing.                            *)
(***************************************************************************)
ConnectInit ==
    /\ StoreIdle
    /\ BusIdle
    /\ DaqIdle
    /\ LoopIdle
    /\ ValidateIdle
    /\ SideIdle

SpecConnect == ConnectInit /\ [][ConnectCall \/ ConnectAttempt]_vars

C7_AllFailed(log) == \A i \in 1..Len(log) : log[i] = FALSE

\* C7: connect() makes at most 5 attempts; it returns True at the first
\* attempt that succeeds, with no attempt after it, and False if and only if
\* all 5 attempts failed; connection_attempts grows by exactly the number of
\* attempts made.
C7_ConnectBounded ==
    /\ Len(conn.log) <= 5
    /\ client_stats.connection_attempts
         = conn.attempts_before + Len(conn.log)
    /\ conn.pc = "attempt" => (Len(conn.log) < 5 /\ C7_AllFailed(conn.log))
    /\ conn.pc = "idle" => conn.ret \in {"none", "True", "False"}
    /\ conn.ret = "True" =>
         /\ conn.pc = "idle"
         /\ Len(conn.log) >= 1
         /\ conn.log[Len(conn.log)] = TRUE
         /\ C7_AllFailed(SubSeq(conn.log, 1, Len(conn.log) - 1))
    /\ conn.ret = "False" <=>
         (conn.pc = "idle" /\ Len(conn.log) = 5 /\ C7_AllFailed(conn.log))

C25_Failures(log) == Cardinality({i \in 1..Len(log) : log[i] = FALSE})

C25_Delays == <<2000, 3000, 4500, 6750>>

\* C25: the delays a connect() call has slept are, in order, the first of
\* 2.0, 3.0, 4.5 and 6.75 seconds (in ms), one after each failed attempt up
\* to the fourth: none before the first attempt, none after the fifth
\* failure, none after a success.
C25_BackoffDelays ==
    /\ Len(conn.sleeps) =
           (IF C25_Failures(conn.log) < 4 THEN C25_Failures(conn.log) ELSE 4)
    /\ \A i \in 1..Len(conn.sleeps) : conn.sleeps[i] = C25_Delays[i]

\* a call that failed five times and slept the four delays
C25_Witness ==
    /\ conn.ret = "False"
    /\ Len(conn.log) = 5
    /\ conn.sleeps = C25_Delays

\* A call returned True at its third attempt and a later call on the same
\* client returned False after five failed attempts.
C7_Witness ==
    /\ conn.calls = 2
    /\ conn.ret = "False"
    /\ Len(conn.log) = 5
    /\ conn.attempts_before = 3
    /\ client_stats.connection_attempts = 8

(***************************************************************************)
(* IndustrialOPCClient.read_sensor_data, opc_client.py:250-352.            *)
(* A mapped sensor is a record: its type and which of the optional handles *)
(* discovery found.  bus[t] is what the bus answers for the sensor of type *)
(* t during the call: whether the value can be read by one of the three    *)
(* methods and converted (value_ok), and the same for the optional fields. *)
(***************************************************************************)
Node(st, hq, hs, ht) ==
    [sensor_type |-> st, has_quality |-> hq, has_status |-> hs,
     has_timestamp |-> ht]

ReadOneAllOrDefaults(node, b, now) ==
    LET all_read == /\ node.has_quality /\ b.quality_ok
                    /\ node.has_status /\ b.status_ok
                    /\ node.has_timestamp /\ b.ts_ok
    IN  ReadingOf(IF all_read THEN b.ts ELSE now,
                  node.sensor_type,
                  b.value,
                  IF all_read THEN b.quality ELSE 100,
                  IF all_read THEN b.status ELSE "OK")

\* opc_client.py:281-335  the reading of a sensor whose value was read
ReadOne(node, b, now) ==
    ReadingOf(IF node.has_timestamp /\ b.ts_ok THEN b.ts ELSE now,
              node.sensor_type,
              b.value,
              IF node.has_quality /\ b.quality_ok THEN b.quality ELSE 100,
              IF node.has_status /\ b.status_ok THEN b.status ELSE "OK")

AfterFailureAbort(i, n) == n + 1

\* opc_client.py:343-346  the loop goes on with the next sensor
AfterFailure(i, n) == i + 1

\* The list returned, and how many sensors were read and failed.
read_sensor_data(is_connected, nodes, bus, now) ==
    LET RECURSIVE loop(_, _, _, _)
        loop(i, readings, ok, failed) ==
            IF i > Len(nodes)
            THEN [readings |-> readings, ok |-> ok, failed |-> failed,
                  touched |-> TRUE]
            ELSE LET node == nodes[i]
                     b == bus[node.sensor_type]
                 IN  IF b.value_ok
                     THEN loop(i + 1, Append(readings, ReadOne(node, b, now)),
                               ok + 1, failed)
                     ELSE loop(AfterFailure(i, Len(nodes)), readings,
                               ok, failed + 1)
    IN  IF ~is_connected
        THEN [readings |-> <<>>, ok |-> 0, failed |-> 0, touched |-> FALSE]
        ELSE loop(1, <<>>, 0, 0)

\* opc_client.py:341-349  the counters after a call
StatsAfterRead(st, res) ==
    IF res.touched
    THEN [st EXCEPT !.successful_readings = @ + res.ok,
                    !.failed_readings = @ + res.failed,
                    !.total_readings = @ + Len(res.readings)]
    ELSE st

(***************************************************************************)
(* SpecRead: read_sensor_data called on a client that is connected or not, *)
(* with one of several sensor maps, the bus answering or failing for each  *)
(* sensor and each field.                                                  *)
(***************************************************************************)
NodeMaps ==
    { <<Node("temperature", TRUE, TRUE, TRUE), Node("pressure", TRUE, TRUE, TRUE),
        Node("vibration", TRUE, TRUE, TRUE)>>,
      <<Node("vibration", FALSE, FALSE, FALSE), Node("temperature", TRUE, TRUE, TRUE)>>,
      <<Node("pressure", TRUE, FALSE, TRUE)>> }

BusAnswer(vok, qok, sok, tok) ==
    [value_ok |-> vok, value |-> 250, quality_ok |-> qok, quality |-> 85,
     status_ok |-> sok, status |-> "WARNING", ts_ok |-> tok, ts |-> 0]

ReadAnswers ==
    { BusAnswer(FALSE, TRUE, TRUE, TRUE), BusAnswer(TRUE, TRUE, TRUE, TRUE),
      BusAnswer(TRUE, FALSE, TRUE, TRUE), BusAnswer(TRUE, TRUE, FALSE, FALSE),
      BusAnswer(TRUE, TRUE, TRUE, FALSE) }

MappedTypes(nodes) == {nodes[i].sensor_type : i \in 1..Len(nodes)}

ReadInit ==
    /\ StoreIdle
    /\ DaqIdle
    /\ LoopIdle
    /\ ValidateIdle
    /\ SideIdle
    /\ connected \in BOOLEAN
    /\ sensor_nodes \in NodeMaps
    /\ client_stats = NewClientStats
    /\ conn = NoConnectCall
    /\ read_call = NoReadCall

ReadSensorDataCall ==
    \E bus \in [SensorTypes -> ReadAnswers] :
        LET res == read_sensor_data(connected, sensor_nodes, bus, next_ts)
        IN  /\ read_call.calls < MaxReadCalls
            /\ client_stats' = StatsAfterRead(client_stats, res)
            /\ read_call' =
                 [called |-> TRUE, calls |-> read_call.calls + 1,
                  connected |-> connected,
                  failed |-> {t \in MappedTypes(sensor_nodes) : ~bus[t].value_ok},
                  stats_before |-> client_stats,
                  readings |-> res.readings, now |-> next_ts, bus |-> bus]
            /\ next_ts' = next_ts + 1
            /\ UNCHANGED <<connected, sensor_nodes, conn, data_buffer,
                           store_call, cfgVars, daqVars, loopVars, validateVars, sideVars>>

SpecRead == ReadInit /\ [][ReadSensorDataCall]_vars

C27_NodeOf(sensor_type) ==
    CHOOSE n \in {sensor_nodes[i] : i \in 1..Len(sensor_nodes)} :
        n.sensor_type = sensor_type

C27_FieldsOf(reading) ==
    LET node == C27_NodeOf(reading.sensor_type)
        b == read_call.bus[reading.sensor_type]
    IN  /\ b.value_ok
        /\ reading.value = b.value
        /\ reading.quality =
             (IF node.has_quality /\ b.quality_ok THEN b.quality ELSE 100)
        /\ reading.status =
             (IF node.has_status /\ b.status_ok THEN b.status ELSE "OK")
        /\ reading.timestamp =
             (IF node.has_timestamp /\ b.ts_ok THEN b.ts ELSE read_call.now)

\* C27: a call on a connected client returns one reading for every mapped
\* sensor whose value was read, whatever happened to the other fields; in
\* each reading a field whose read failed or whose handle is absent has
\* its default (quality 100, status OK, timestamp of the call) and every
\* other field has the value read from the bus.
C27_FieldDefaults ==
    (read_call.called /\ read_call.connected) =>
        /\ {read_call.readings[i].sensor_type :
                i \in 1..Len(read_call.readings)}
             = {t \in MappedTypes(sensor_nodes) : read_call.bus[t].value_ok}
        /\ \A i \in 1..Len(read_call.readings) :
              C27_FieldsOf(read_call.readings[i])

\* a reading whose quality could not be read and is 100 while its status
\* and timestamp are the ones read from the bus
C27_Witness ==
    /\ read_call.called
    /\ \E i \in 1..Len(read_call.readings) :
          LET r == read_call.readings[i]
              b == read_call.bus[r.sensor_type]
              node == C27_NodeOf(r.sensor_type)
          IN  /\ node.has_quality /\ node.has_status /\ node.has_timestamp
              /\ ~b.quality_ok /\ b.status_ok /\ b.ts_ok
              /\ r.quality = 100
              /\ r.status = "WARNING"
              /\ r.timestamp = b.ts
              /\ r.timestamp # read_call.now

C8_Remaining(nodes, failed) ==
    SelectSeq(nodes, LAMBDA n : n.sensor_type \notin failed)

\* C8: read_sensor_data on a connected client isolates per-sensor failures:
\* whatever subset of the mapped sensors fails on its core value, the batch
\* returned holds exactly one reading for each remaining sensor, in the
\* map's order, and none for a failed one, and failed_readings grows by the
\* number of failed sensors.
C8_FailuresIsolated ==
    (read_call.called /\ read_call.connected) =>
        LET remaining == C8_Remaining(sensor_nodes, read_call.failed) IN
        /\ Len(read_call.readings) = Len(remaining)
        /\ \A i \in 1..Len(remaining) :
               read_call.readings[i].sensor_type = remaining[i].sensor_type
        /\ \A i \in 1..Len(read_call.readings) :
               read_call.readings[i].sensor_type \notin read_call.failed
        /\ client_stats.failed_readings
             = read_call.stats_before.failed_readings
               + Cardinality(read_call.failed)
        /\ client_stats.successful_readings
             = read_call.stats_before.successful_readings + Len(remaining)

\* Of three mapped sensors the first failed on its value: the batch holds
\* the other two and the failure counter moved by one.
C8_Witness ==
    /\ read_call.called
    /\ read_call.connected
    /\ Len(sensor_nodes) = 3
    /\ read_call.failed = {"temperature"}
    /\ Len(read_call.readings) = 2
    /\ read_call.readings[1].sensor_type = "pressure"
    /\ read_call.readings[2].sensor_type = "vibration"
    /\ client_stats.failed_readings
         = read_call.stats_before.failed_readings + 1

(***************************************************************************)
(* SpecStore: store_readings called again and again on one client, with    *)
(* every batch_size and max_buffer_size up to the bounds, lists of up to   *)
(* MaxNewReadings new readings and a storage that accepts or fails.        *)
(***************************************************************************)
NewReadings(n) ==
    [i \in 1..n |-> Reading(next_ts + i - 1, "temperature", 250, 100)]

StoreInit ==
    /\ batch_size \in 1..MaxBatchSize
    /\ max_buffer_size \in 1..MaxBufferSize
    /\ acquisition_interval = default_acquisition_interval
    /\ min_quality_threshold = default_min_quality_threshold
    /\ data_buffer = <<>>
    /\ next_ts = 1
    /\ store_call = NoStoreCall
    /\ BusIdle
    /\ DaqIdle
    /\ LoopIdle
    /\ ValidateIdle
    /\ SideIdle

StoreReadingsCall ==
    \E n \in 0..MaxNewReadings, db_ok \in BOOLEAN :
        LET readings == NewReadings(n)
            res == StoreResult(data_buffer, readings, db_ok)
        IN  /\ next_ts <= MaxStoreCalls * MaxNewReadings
            /\ data_buffer' = res.buffer
            /\ next_ts' = next_ts + MaxNewReadings
            /\ store_call' = [called |-> TRUE, pre |-> data_buffer,
                              readings |-> readings,
                              db_ok |-> res.attempted /\ db_ok,
                              attempted |-> res.attempted, ret |-> res.ret]
            /\ UNCHANGED <<cfgVars, busVars, daqVars, loopVars, validateVars, sideVars>>

SpecStore == StoreInit /\ [][StoreReadingsCall]_vars

\* C1: after every completed call to store_readings, for any batch_size > 0
\* and max_buffer_size > 0 and any pattern of storage successes and
\* failures, the buffer holds at most max_buffer_size readings.
C1_BufferBounded ==
    store_call.called => Len(data_buffer) <= max_buffer_size

\* C2 as stated: a batch insert is attempted exactly when the buffer, after
\* the new readings are appended, holds at least batch_size readings; after
\* an insert that succeeds the buffer is empty and the call returns True.
C2_FlushExactlyAtBatchSize ==
    store_call.called =>
        /\ store_call.attempted
             <=> (Len(store_call.pre) + Len(store_call.readings) >= batch_size)
        /\ (store_call.attempted /\ store_call.db_ok)
             => (data_buffer = <<>> /\ store_call.ret = TRUE)

\* C2 amended: the above for a call with a non-empty list; a call with an
\* empty list attempts no insert, returns True and leaves the buffer as it
\* was, whatever the buffer holds.
C2_FlushAtBatchSizeNonEmpty ==
    store_call.called =>
        /\ store_call.readings # <<>> =>
             (store_call.attempted
                <=> (Len(store_call.pre) + Len(store_call.readings) >= batch_size))
        /\ store_call.readings = <<>> =>
             (/\ ~store_call.attempted
              /\ store_call.ret = TRUE
              /\ data_buffer = store_call.pre)
        /\ (store_call.attempted /\ store_call.db_ok)
             => (data_buffer = <<>> /\ store_call.ret = TRUE)

\* A call whose new readings brought the buffer from below batch_size to
\* batch_size flushed it: the insert succeeded, the buffer is empty.
C2_Witness ==
    /\ store_call.called
    /\ Len(store_call.pre) > 0
    /\ Len(store_call.pre) < batch_size
    /\ Len(store_call.pre) + Len(store_call.readings) = batch_size
    /\ store_call.attempted
    /\ store_call.db_ok
    /\ data_buffer = <<>>
    /\ store_call.ret = TRUE

(***************************************************************************)
(* Helpers for Python lists.                                               *)
(***************************************************************************)
\* s[-n:] for n > 0
LastN(s, n) == IF Len(s) <= n THEN s ELSE SubSeq(s, Len(s) - n + 1, Len(s))

RECURSIVE SumSeq(_)
SumSeq(s) == IF s = <<>> THEN 0 ELSE Head(s) + SumSeq(Tail(s))

Abs(x) == IF x < 0 THEN -x ELSE x

(***************************************************************************)
(* IndustrialDAQSystem.calculate_moving_average, main.py:289-315.  The     *)
(* result is in sixtieths of a tenth.                                      *)
(***************************************************************************)
AllValues(history, sensor_type) ==
    [i \in 1..Len(history) |-> history[i].value]

\* main.py:302-305  the values of the history points of one sensor type
SameTypeValues(history, sensor_type) ==
    LET points == SelectSeq(history,
                            LAMBDA point : point.sensor_type = sensor_type)
    IN  [i \in 1..Len(points) |-> points[i].value]

calculate_moving_average(history, sensor_type, current_value) ==
    LET sensor_history ==
            Append(SameTypeValues(history, sensor_type), current_value)
        recent_values == LastN(sensor_history, moving_average_window)
    IN  (SumSeq(recent_values) * 60) \div Len(recent_values)

(***************************************************************************)
(* IndustrialDAQSystem.process_readings, main.py:233-287.  A processed     *)
(* reading is the reading with the keys the method adds; has_deviation     *)
(* says whether deviation_from_avg was set (moving_avg was not zero).      *)
(***************************************************************************)
\* main.py:245-273
ProcessOne(reading, history) ==
    LET moving_avg == calculate_moving_average(history, reading.sensor_type,
                                               reading.value)
        deviation == Abs(reading.value * 60 - moving_avg)
    IN  reading @@
        [moving_average |-> moving_avg,
         has_deviation |-> moving_avg # 0,
         deviation_from_avg |-> IF moving_avg # 0 THEN deviation ELSE 0,
         high_deviation |-> moving_avg # 0 /\ deviation * 10 > moving_avg]

process_readings_drops_flagged(readings, history) ==
    LET all == [i \in 1..Len(readings) |-> ProcessOne(readings[i], history)]
        processed == SelectSeq(all, LAMBDA r : r.anomaly = ""
                                               /\ ~r.high_deviation)
    IN  [processed |-> processed,
         history |-> LastN(history \o processed, history_cap)]

process_readings_keeps_oldest(readings, history) ==
    LET processed == [i \in 1..Len(readings) |-> ProcessOne(readings[i], history)]
        extended == history \o processed
    IN  [processed |-> processed,
         history |-> IF Len(extended) > history_cap
                     THEN SubSeq(extended, 1, history_cap) ELSE extended]

\* The list returned and the history the call leaves (main.py:280-284).
process_readings(readings, history) ==
    LET processed == [i \in 1..Len(readings) |-> ProcessOne(readings[i], history)]
    IN  [processed |-> processed,
         history |-> LastN(history \o processed, history_cap)]

\* A point of the history as process_readings stores it.
HistoryPoint(ts, st, v) == ProcessOne(Reading(ts, st, v, 100), <<>>)

(***************************************************************************)
(* SpecAverage: calculate_moving_average applied to every history of at    *)
(* most MaxAverageHistory points of two sensor types, and to the history   *)
(* of the documented example.                                              *)
(***************************************************************************)
AveragePoints ==
    {HistoryPoint(0, tv[1], tv[2]) :
        tv \in ({"temperature"} \X {200, 260}) \cup ({"pressure"} \X {10, 14})}

ExampleHistory ==
    <<HistoryPoint(0, "temperature", 200), HistoryPoint(0, "temperature", 220),
      HistoryPoint(0, "pressure", 10), HistoryPoint(0, "temperature", 240),
      HistoryPoint(0, "temperature", 230), HistoryPoint(0, "temperature", 250)>>

AverageInit ==
    /\ StoreIdle
    /\ BusIdle
    /\ LoopIdle
    /\ ValidateIdle
    /\ SideIdle
    /\ stats = NewStats
    /\ data_history \in SeqsUpTo(AveragePoints, MaxAverageHistory)
                          \cup {ExampleHistory}
    /\ anomaly_buffer = <<>>
    /\ cycle = NoCycle
    /\ avg_call = NoAverageCall

AverageCall ==
    \E st \in {"temperature", "pressure"}, v \in {10, 200, 260} :
        /\ ~avg_call.called
        /\ avg_call' = [called |-> TRUE, sensor_type |-> st,
                        current_value |-> v,
                        result |-> calculate_moving_average(data_history, st, v)]
        /\ UNCHANGED <<stats, data_history, anomaly_buffer, cycle,
                       cfgVars, storeVars, busVars, loopVars, validateVars, sideVars>>

SpecAverage == AverageInit /\ [][AverageCall]_vars

C10_Min(a, b) == IF a < b THEN a ELSE b

\* The same-type values of the history, found by position: the j-th of
\* them is the value of the point that has j - 1 same-type points before it.
C10_SameTypeCount(history, st, upto) ==
    Cardinality({i \in 1..upto : history[i].sensor_type = st})

C10_Series(history, st, v) ==
    LET n == C10_SameTypeCount(history, st, Len(history))
    IN  [j \in 1..(n + 1) |->
            IF j = n + 1 THEN v
            ELSE LET i == CHOOSE i \in 1..Len(history) :
                              /\ history[i].sensor_type = st
                              /\ C10_SameTypeCount(history, st, i) = j
                 IN  history[i].value]

RECURSIVE C10_SumFrom(_, _)
C10_SumFrom(s, j) == IF j > Len(s) THEN 0 ELSE s[j] + C10_SumFrom(s, j + 1)

\* C10: calculate_moving_average returns the arithmetic mean of the last
\* min(5, n + 1) elements of the n same-type history values, in order,
\* followed by the current value; values of other sensor types have no
\* influence.  (result is in sixtieths: result / 60 is the mean.)
C10_MovingAverage ==
    avg_call.called =>
        LET series == C10_Series(data_history, avg_call.sensor_type,
                                 avg_call.current_value)
            n == Len(series) - 1
            k == C10_Min(5, n + 1)
        IN  avg_call.result * k = 60 * C10_SumFrom(series, Len(series) - k + 1)

\* History [20, 22, 24, 23, 25] of temperature, with a pressure point in
\* between, and the new value 26: the moving average is 24.0.
C10_Witness ==
    /\ avg_call.called
    /\ data_history = ExampleHistory
    /\ avg_call.sensor_type = "temperature"
    /\ avg_call.current_value = 260
    /\ avg_call.result = 60 * 240

\* C18: after a store_readings call whose batch insert failed, the buffer is
\* the buffer as extended by the call when that has at most
\* max_buffer_size entries, and otherwise its last max_buffer_size entries
\* in their order (the len - max_buffer_size oldest are gone); the call
\* returned False.
C18_FailedFlushEvictsOldest ==
    (store_call.called /\ store_call.attempted /\ ~store_call.db_ok) =>
        LET extended == store_call.pre \o store_call.readings
            n == Len(extended)
        IN  /\ store_call.ret = FALSE
            /\ IF n > max_buffer_size
               THEN /\ Len(data_buffer) = max_buffer_size
                    /\ \A i \in 1..max_buffer_size :
                           data_buffer[i] = extended[n - max_buffer_size + i]
               ELSE data_buffer = extended

\* a failed flush of a buffer holding two readings more than
\* max_buffer_size, of which some were there before the call
C18_Witness ==
    /\ store_call.called
    /\ store_call.attempted
    /\ ~store_call.db_ok
    /\ ~store_call.ret
    /\ store_call.pre # <<>>
    /\ Len(store_call.pre) + Len(store_call.readings) = max_buffer_size + 2
    /\ Len(data_buffer) = max_buffer_size

(***************************************************************************)
(* Anomaly detection, main.py:317-444.  An anomaly record keeps the        *)
(* fields of the dict; the description string is kept as the number it is  *)
(* built from (change_rate, for a rapid change).                           *)
(***************************************************************************)
calculate_severity_inclusive(reading) ==
    IF reading.anomaly = "OUT_OF_RANGE"
    THEN IF reading.sensor_type = "temperature"
         THEN IF reading.value >= 350 \/ reading.value =< 200
              THEN "HIGH" ELSE "MEDIUM"
         ELSE IF reading.sensor_type = "pressure"
         THEN IF reading.value >= 18 \/ reading.value =< 10
              THEN "HIGH" ELSE "MEDIUM"
         ELSE "LOW"
    ELSE IF reading.anomaly = "HIGH_VIBRATION"
    THEN IF reading.value >= 20 THEN "CRITICAL" ELSE "HIGH"
    ELSE "LOW"

\* main.py:381-403
calculate_severity(reading) ==
    IF reading.anomaly = "OUT_OF_RANGE"
    THEN IF reading.sensor_type = "temperature"
         THEN IF reading.value > 350 \/ reading.value < 200
              THEN "HIGH" ELSE "MEDIUM"
         ELSE IF reading.sensor_type = "pressure"
         THEN IF reading.value > 18 \/ reading.value < 10
              THEN "HIGH" ELSE "MEDIUM"
         ELSE "LOW"
    ELSE IF reading.anomaly = "HIGH_VIBRATION"
    THEN IF reading.value > 20 THEN "CRITICAL" ELSE "HIGH"
    ELSE "LOW"

(***************************************************************************)
(* SpecSeverity: _calculate_severity applied to tagged readings.  The tags *)
(* are those validate_readings can set on the sensor type (the thresholds  *)
(* of the range gate are configuration, so an OUT_OF_RANGE value can lie   *)
(* anywhere), and LOW_QUALITY, the third tag _get_anomaly_description      *)
(* knows, for a tag the table does not name.                               *)
(***************************************************************************)
SeverityInputs ==
    ({"temperature"} \X {179, 199, 200, 201, 349, 350, 351, 401}
                    \X {"OUT_OF_RANGE", "LOW_QUALITY"})
    \cup ({"pressure"} \X {8, 9, 10, 11, 17, 18, 19, 21}
                      \X {"OUT_OF_RANGE", "LOW_QUALITY"})
    \cup ({"vibration"} \X {19, 20, 21, 25, 26}
                       \X {"HIGH_VIBRATION", "LOW_QUALITY"})
    \cup ({"humidity"} \X {450} \X {"LOW_QUALITY"})

TaggedReadings ==
    {[Reading(0, in[1], in[2], q) EXCEPT !.anomaly = in[3]] :
        in \in SeverityInputs, q \in {80, 100}}

SeverityInit ==
    /\ StoreIdle
    /\ BusIdle
    /\ DaqIdle
    /\ LoopIdle
    /\ ValidateIdle
    /\ SimIdle
    /\ LifeIdle
    /\ generated = NoGenerated
    /\ discover_call = NoDiscoverCall
    /\ severity_call \in {[NoSeverityCall EXCEPT !.reading = r] :
                             r \in TaggedReadings}

SeverityCall ==
    /\ ~severity_call.called
    /\ severity_call' =
           [called |-> TRUE, reading |-> severity_call.reading,
            severity |-> calculate_severity(severity_call.reading)]
    /\ UNCHANGED <<generated, discover_call>>
    /\ UNCHANGED <<cfgVars, storeVars, busVars, daqVars, loopVars,
                   validateVars, simVars, lifeVars>>

SpecSeverity == SeverityInit /\ [][SeverityCall]_vars

C11_High(reading) ==
    \/ /\ reading.sensor_type = "temperature"
       /\ (reading.value > 350 \/ reading.value < 200)
    \/ /\ reading.sensor_type = "pressure"
       /\ (reading.value > 18 \/ reading.value < 10)

C11_Table(reading) ==
    CASE reading.anomaly = "OUT_OF_RANGE" ->
             IF C11_High(reading) THEN "HIGH" ELSE "MEDIUM"
      [] reading.anomaly = "HIGH_VIBRATION" ->
             IF reading.value > 20 THEN "CRITICAL" ELSE "HIGH"
      [] OTHER -> "LOW"

\* C11: the severity returned for a validation-tagged reading is the one of
\* the table: OUT_OF_RANGE is HIGH for temperature > 35 or < 20 and pressure
\* > 1.8 or < 1.0 and MEDIUM otherwise, HIGH_VIBRATION is CRITICAL above 2.0
\* and HIGH otherwise, any other tag is LOW.
C11_SeverityTable ==
    severity_call.called =>
        severity_call.severity = C11_Table(severity_call.reading)

\* an OUT_OF_RANGE temperature of 35.0, on the boundary, is MEDIUM
C11_Witness ==
    /\ severity_call.called
    /\ severity_call.reading.anomaly = "OUT_OF_RANGE"
    /\ severity_call.reading.sensor_type = "temperature"
    /\ severity_call.reading.value = 350
    /\ severity_call.severity = "MEDIUM"

\* main.py:434-440  thresholds.get(sensor_type, 1.0)
RapidThreshold(sensor_type) ==
    CASE sensor_type = "temperature" -> 50
      [] sensor_type = "pressure" -> 3
      [] sensor_type = "vibration" -> 5
      [] OTHER -> 10

\* main.py:416-444  None is [detected |-> FALSE]
detect_rapid_change(reading, history) ==
    LET window == LastN(history, rapid_change_window)
        points == SelectSeq(window,
                    LAMBDA point : point.sensor_type = reading.sensor_type)
        previous_values == [i \in 1..Len(points) |-> points[i].value]
    IN  IF Len(previous_values) >= 2
        THEN LET last_value == previous_values[Len(previous_values)]
                 change_rate == Abs(reading.value - last_value)
             IN  IF change_rate > RapidThreshold(reading.sensor_type)
                 THEN [detected |-> TRUE, change_rate |-> change_rate]
                 ELSE [detected |-> FALSE, change_rate |-> 0]
        ELSE [detected |-> FALSE, change_rate |-> 0]

AnomalyRecord(reading, anomaly_type, severity, change_rate) ==
    [timestamp |-> reading.timestamp, sensor_type |-> reading.sensor_type,
     value |-> reading.value, anomaly_type |-> anomaly_type,
     severity |-> severity, change_rate |-> change_rate]

AnomaliesOfFirstMatch(reading, history) ==
    LET rapid_change == detect_rapid_change(reading, history) IN
    IF reading.anomaly # ""
    THEN <<AnomalyRecord(reading, reading.anomaly,
                         calculate_severity(reading), 0)>>
    ELSE IF reading.high_deviation
    THEN <<AnomalyRecord(reading, "HIGH_DEVIATION", "MEDIUM", 0)>>
    ELSE IF rapid_change.detected
    THEN <<AnomalyRecord(reading, "RAPID_CHANGE", "HIGH",
                         rapid_change.change_rate)>>
    ELSE <<>>

\* main.py:330-369  the records one reading gives
AnomaliesOf(reading, history) ==
    LET rapid_change == detect_rapid_change(reading, history) IN
    (IF reading.anomaly # ""
     THEN <<AnomalyRecord(reading, reading.anomaly,
                          calculate_severity(reading), 0)>>
     ELSE <<>>)
    \o (IF reading.high_deviation
        THEN <<AnomalyRecord(reading, "HIGH_DEVIATION", "MEDIUM", 0)>>
        ELSE <<>>)
    \o (IF rapid_change.detected
        THEN <<AnomalyRecord(reading, "RAPID_CHANGE", "HIGH",
                             rapid_change.change_rate)>>
        ELSE <<>>)

\* main.py:317-379  history is self.data_history when the method runs
detect_anomalies(readings, history) ==
    LET RECURSIVE loop(_, _)
        loop(i, anomalies) ==
            IF i > Len(readings) THEN anomalies
            ELSE loop(i + 1, anomalies \o AnomaliesOf(readings[i], history))
    IN  loop(1, <<>>)

\* main.py:483-504  the row _store_anomaly hands to insert_sensor_reading
AnomalyRow(anomaly) ==
    [timestamp |-> anomaly.timestamp, sensor_type |-> "anomaly",
     value |-> 10, unit |-> "count", quality |-> 100,
     status |-> anomaly.anomaly_type]

\* database.py:160-213  one INSERT; an error of the database is caught and
\* reported as False
insert_sensor_reading(row, db_accepts) == db_accepts

handle_anomalies_stops_at_failure(anomalies, failing_rows) ==
    LET RECURSIVE loop(_, _)
        loop(i, calls) ==
            IF i > Len(anomalies) THEN calls
            ELSE LET ok == insert_sensor_reading(AnomalyRow(anomalies[i]),
                                                 i \notin failing_rows)
                     call == [op |-> "insert_sensor_reading", anomaly |-> i,
                              ok |-> ok]
                 IN  IF ok THEN loop(i + 1, Append(calls, call))
                     ELSE Append(calls, call)
    IN  loop(1, <<>>)

\* main.py:446-481  the calls to the database that handle_anomalies makes,
\* in order: one insert_sensor_reading per anomaly, whatever the earlier
\* ones returned.  failing_rows are the anomalies whose INSERT fails.
handle_anomalies(anomalies, failing_rows) ==
    LET RECURSIVE loop(_, _)
        loop(i, calls) ==
            IF i > Len(anomalies) THEN calls
            ELSE LET ok == insert_sensor_reading(AnomalyRow(anomalies[i]),
                                                 i \notin failing_rows)
                 IN  loop(i + 1,
                          Append(calls,
                                 [op |-> "insert_sensor_reading",
                                  anomaly |-> i, ok |-> ok]))
    IN  loop(1, <<>>)

maintenance_tasks_keeps_all(buffer) == buffer

\* main.py:522-524  the anomaly buffer after maintenance_tasks; buffer is
\* the list as handle_anomalies has extended it (main.py:467)
maintenance_tasks(buffer) == LastN(buffer, anomaly_retention)

(***************************************************************************)
(* IndustrialDAQSystem.acquisition_cycle, main.py:118-178, as one step:    *)
(* read, validate, process, detect, handle the anomalies, store, update    *)
(* the statistics, maintenance.  bus is what the bus answers during the    *)
(* cycle, db_ok whether the batch insert of store_readings goes through.   *)
(* The variable cycle records what the stages produced.                    *)
(***************************************************************************)
CycleReturnIgnoresStorage(storage_success) == TRUE

\* main.py:165-173  the value returned by a cycle that reached the storage
CycleReturn(storage_success) == storage_success

\* main.py:125-178  where the body of the try block raises an Exception:
\* nowhere, in the first call (read_sensor_data, main.py:129), or in the last
\* call (maintenance_tasks, main.py:155), after every earlier stage has acted
RaisePoints == {"none", "read", "maintenance"}

FailedCyclesNotCounted(raised, n) == n

\* main.py:175-176  the except branch counts the cycle as failed
FailedCyclesAfter(raised, n) == IF raised THEN n + 1 ELSE n

acquisition_cycle(bus, db_ok, raise_at, failing_rows) ==
    LET read == read_sensor_data(connected, sensor_nodes, bus, next_ts)
        validated == validate_readings(read.readings)
        proc == process_readings(validated, data_history)
        anomalies == detect_anomalies(proc.processed, proc.history)
        store == StoreResult(data_buffer, proc.processed, db_ok)
        counted == [stats EXCEPT !.total_cycles = @ + 1]
        early(stage, vals) ==
            /\ stats' = counted
            /\ cycle' = [NoCycle EXCEPT !.ran = TRUE, !.stage = stage,
                                        !.history_before = data_history,
                                        !.readings = read.readings,
                                        !.validated = vals]
            /\ UNCHANGED <<data_history, anomaly_buffer, data_buffer,
                           store_call>>
        raised(before, stage, vals) ==
            /\ stats' = [before EXCEPT
                           !.failed_cycles = FailedCyclesAfter(TRUE, @)]
            /\ cycle' = [vals EXCEPT !.ran = TRUE, !.stage = stage,
                                     !.history_before = data_history,
                                     !.ret = FALSE]
    IN  IF raise_at = "read"
        THEN /\ raised(counted, "raised", NoCycle)
             /\ UNCHANGED <<next_ts, client_stats, data_history,
                            anomaly_buffer, data_buffer, store_call,
                            connected, sensor_nodes, conn, read_call,
                            avg_call, cfgVars, validateVars, sideVars>>
        ELSE
        /\ next_ts' = next_ts + 1
        /\ client_stats' = StatsAfterRead(client_stats, read)
        /\ IF read.readings = <<>>
           THEN early("no_readings", <<>>)
           ELSE IF validated = <<>>
           THEN early("all_rejected", <<>>)
           ELSE /\ data_history' = proc.history
                /\ anomaly_buffer' =
                     maintenance_tasks(anomaly_buffer \o anomalies)
                /\ data_buffer' = store.buffer
                /\ store_call' =
                     [called |-> TRUE, pre |-> data_buffer,
                      readings |-> proc.processed,
                      db_ok |-> store.attempted /\ db_ok,
                      attempted |-> store.attempted, ret |-> store.ret]
                /\ LET updated ==
                         [counted EXCEPT
                            !.anomalies_detected = @ + Len(anomalies),
                            !.total_data_points = @ + Len(proc.processed)]
                       done ==
                         [ran |-> TRUE, stage |-> "stored",
                          history_before |-> data_history,
                          readings |-> read.readings,
                          validated |-> validated,
                          processed |-> proc.processed,
                          anomalies |-> anomalies,
                          anomaly_rows |->
                              [i \in 1..Len(anomalies) |->
                                  AnomalyRow(anomalies[i])],
                          db_calls |->
                              handle_anomalies(anomalies, failing_rows)
                              \o <<[op |-> "store_readings", anomaly |-> 0,
                                    ok |-> store.ret]>>,
                          storage_success |-> store.ret,
                          ret |-> CycleReturn(store.ret)]
                   IN  IF raise_at = "maintenance"
                       THEN raised(updated, "raised_late", done)
                       ELSE /\ stats' =
                                [updated EXCEPT
                                   !.successful_cycles =
                                       IF store.ret THEN @ + 1 ELSE @]
                            /\ cycle' = done
        /\ UNCHANGED <<connected, sensor_nodes, conn, read_call, avg_call,
                       cfgVars, validateVars, sideVars>>

BusAnswerOf(vok, v, q) ==
    [value_ok |-> vok, value |-> v, quality_ok |-> TRUE, quality |-> q,
     status_ok |-> TRUE, status |-> "OK", ts_ok |-> FALSE, ts |-> 0]

FullNode(st) == Node(st, TRUE, TRUE, TRUE)

(***************************************************************************)
(* IndustrialDAQSystem.run, main.py:572-613.  The loop is at "cycle" (the  *)
(* test of the while and of self.paused), at "cooldown" (the counter has   *)
(* reached the maximum) or at "sleep" (the wait before the next cycle).    *)
(* time.sleep(settings.daq.acquisition_interval) raises OverflowError for  *)
(* an interval too large for the platform's time_t, a value                *)
(* Config.validate accepts (it only asks for interval > 0); the exception  *)
(* lands in the loop's handler.  Such an interval (1e19 seconds, say) is   *)
(* kept as interval_beyond_sleep, a number above every other interval of   *)
(* the model; interval_overflows says whether the configured interval is   *)
(* such a value.                                                           *)
(***************************************************************************)
interval_beyond_sleep == 1000000000

\* main.py:600  whether time.sleep(settings.daq.acquisition_interval) raises
interval_overflows == acquisition_interval >= interval_beyond_sleep

\* main.py:594  consecutive_failures >= max_consecutive_failures
CooldownDue(failures) == failures >= max_consecutive_failures

CycleDueIgnoringPause == running

CycleDueIgnoringRunning == ~paused

\* main.py:582, 584  while self.running: ... if not self.paused:
CycleDue == running /\ ~paused

\* main.py:584-597  a cycle and the update of the counter
RunCycle ==
    \E bus \in [MappedTypes(sensor_nodes) ->
                  {BusAnswerOf(FALSE, 0, 0), BusAnswerOf(TRUE, 250, 70),
                   BusAnswerOf(TRUE, 250, 100)}],
       db_ok \in BOOLEAN, raise_at \in RaisePoints :
        /\ pc = "cycle"
        /\ CycleDue
        /\ stats.total_cycles < MaxCycles
        /\ raise_at # "none" => stats.failed_cycles < MaxRaisedCycles
        /\ acquisition_cycle(bus, db_ok, raise_at, {})
        /\ consecutive_failures' =
               IF cycle'.ret THEN 0 ELSE consecutive_failures + 1
        /\ failed_streak' = IF cycle'.ret THEN 0 ELSE failed_streak + 1
        /\ pc' = IF ~cycle'.ret /\ CooldownDue(consecutive_failures + 1)
                 THEN "cooldown" ELSE "sleep"
        /\ UNCHANGED <<running, paused, last_sleep>>

\* main.py:595-597  time.sleep(30), then the counter is reset
Cooldown ==
    /\ pc = "cooldown"
    /\ last_sleep' = [kind |-> "cooldown", seconds |-> cooldown_seconds]
    /\ consecutive_failures' = 0
    /\ pc' = "sleep"
    /\ UNCHANGED <<running, paused, failed_streak,
                   cfgVars, storeVars, busVars, daqVars, validateVars, sideVars>>

\* main.py:600  time.sleep(settings.daq.acquisition_interval) returns
IntervalSleep ==
    /\ pc = "sleep"
    /\ ~interval_overflows
    /\ last_sleep' = [kind |-> "interval", seconds |-> 0]
    /\ pc' = "cycle"
    /\ UNCHANGED <<running, paused, consecutive_failures,
                   failed_streak,
                   cfgVars, storeVars, busVars, daqVars, validateVars, sideVars>>

\* main.py:600, 608-611  time.sleep raises; the handler counts a failure
\* and sleeps 5 seconds
IntervalSleepRaises ==
    /\ pc = "sleep"
    /\ interval_overflows
    /\ consecutive_failures' = consecutive_failures + 1
    /\ last_sleep' = [kind |-> "error", seconds |-> error_pause_seconds]
    /\ pc' = "cycle"
    /\ UNCHANGED <<running, paused, failed_streak,
                   cfgVars, storeVars, busVars, daqVars, validateVars, sideVars>>

\* main.py:601-603  the loop while self.paused
PausedTick ==
    /\ pc = "cycle"
    /\ running
    /\ paused
    /\ last_sleep' = [kind |-> "paused", seconds |-> paused_tick_seconds]
    /\ UNCHANGED <<running, paused, pc,
                   consecutive_failures, failed_streak,
                   cfgVars, storeVars, busVars, daqVars, validateVars, sideVars>>

\* main.py:637-640
Pause ==
    /\ ~paused
    /\ paused' = TRUE
    /\ UNCHANGED <<running, pc, consecutive_failures,
                   last_sleep, failed_streak,
                   cfgVars, storeVars, busVars, daqVars, validateVars, sideVars>>

\* main.py:642-645
Resume ==
    /\ paused
    /\ paused' = FALSE
    /\ UNCHANGED <<running, pc, consecutive_failures,
                   last_sleep, failed_streak,
                   cfgVars, storeVars, busVars, daqVars, validateVars, sideVars>>

(***************************************************************************)
(* Spec: the run loop of an initialized system (connected, one temperature *)
(* sensor mapped), with a storage that accepts or fails, a bus that        *)
(* answers, fails or answers with low quality, and an acquisition interval *)
(* that time.sleep accepts or not.                                         *)
(***************************************************************************)
Init ==
    /\ batch_size \in {1, 2}
    /\ max_buffer_size = 2
    /\ acquisition_interval \in
           {default_acquisition_interval, interval_beyond_sleep}
    /\ min_quality_threshold = default_min_quality_threshold
    /\ data_buffer = <<>>
    /\ next_ts = 1
    /\ store_call = NoStoreCall
    /\ connected = TRUE
    /\ sensor_nodes = <<FullNode("temperature")>>
    /\ client_stats = NewClientStats
    /\ conn = NoConnectCall
    /\ read_call = NoReadCall
    /\ DaqIdle
    /\ ValidateIdle
    /\ SideIdle
    /\ running = TRUE
    /\ paused = FALSE
    /\ pc = "cycle"
    /\ consecutive_failures = 0
    /\ last_sleep = NoSleep
    /\ failed_streak = 0

Next ==
    \/ RunCycle
    \/ Cooldown
    \/ IntervalSleep
    \/ IntervalSleepRaises
    \/ PausedTick
    \/ Pause
    \/ Resume

Spec == Init /\ [][Next]_vars

\* C5 (as stated): the cooldown is entered only after 5 consecutive failed
\* cycles, a counter that has reached 5 means the loop is at the cooldown,
\* and after a successful cycle the counter is 0.
C5_CooldownGovernor ==
    /\ pc = "cooldown" => failed_streak >= 5
    /\ consecutive_failures >= 5 => pc = "cooldown"
    /\ (pc = "sleep" /\ cycle.ran /\ cycle.ret) => consecutive_failures = 0

C6_NoUsableReadings(c) == c.stage \in {"no_readings", "all_rejected"}

C6_StorageFailed(c) == c.stage = "stored" /\ ~c.storage_success

C6_ExceptionCaught(c) == c.stage \in {"raised", "raised_late"}

\* C6 (as stated): a cycle increments the consecutive-failure counter if and
\* only if it acquired no readings or had all its readings rejected.
C6_IncrementOnlyWithoutReadings ==
    [][stats'.total_cycles # stats.total_cycles =>
         ((consecutive_failures' = consecutive_failures + 1)
              <=> C6_NoUsableReadings(cycle'))]_vars

\* C6 (amended): a cycle increments the consecutive-failure counter if and
\* only if it acquired no readings, had all its readings rejected,
\* store_readings returned failure, or an exception was caught inside the
\* cycle; every other cycle resets it to 0.
C6_IncrementOnFailedCycle ==
    [][stats'.total_cycles # stats.total_cycles =>
         /\ (consecutive_failures' = consecutive_failures + 1)
              <=> \/ C6_NoUsableReadings(cycle')
                  \/ C6_StorageFailed(cycle')
                  \/ C6_ExceptionCaught(cycle')
         /\ (consecutive_failures' # consecutive_failures + 1)
              => consecutive_failures' = 0]_vars

\* the fifth failure in a row is a cycle whose only fault is the storage,
\* and it brings the cooldown
C6_Witness ==
    /\ pc = "cooldown"
    /\ C6_StorageFailed(cycle)
    /\ cycle.validated # <<>>
    /\ ~interval_overflows
    /\ failed_streak = 5
    /\ consecutive_failures = 5

\* C20: a cycle in which an exception is raised inside the try block adds
\* exactly one to failed_cycles, returns failure, is counted by the run loop
\* as a failed cycle, and leaves the loop running (running still set, the
\* loop at its sleep or at the cooldown that precede the next cycle).
C20_ExceptionKeepsLoopRunning ==
    [][(stats'.total_cycles # stats.total_cycles
            /\ C6_ExceptionCaught(cycle')) =>
         /\ stats'.total_cycles = stats.total_cycles + 1
         /\ stats'.failed_cycles = stats.failed_cycles + 1
         /\ stats'.successful_cycles = stats.successful_cycles
         /\ ~cycle'.ret
         /\ consecutive_failures' = consecutive_failures + 1
         /\ running'
         /\ pc' \in {"sleep", "cooldown"}]_vars

\* a cycle that completed after an earlier cycle had raised: the later cycle
\* was executed, and the raised one stays counted
C20_Witness ==
    /\ stats.failed_cycles >= 1
    /\ stats.total_cycles >= 2
    /\ cycle.stage = "stored"
    /\ cycle.ret
    /\ running

C37_FailureCounted ==
    (stats'.total_cycles # stats.total_cycles /\ ~cycle'.ret) =>
        stats'.failed_cycles = stats.failed_cycles + 1

\* C37: after every finished acquisition cycle total_cycles is the sum of
\* successful_cycles and failed_cycles, and a cycle that returns failure to
\* the run loop has added one to failed_cycles.
C37_CycleAccountingComplete ==
    /\ [](stats.total_cycles = stats.successful_cycles + stats.failed_cycles)
    /\ [][C37_FailureCounted]_vars

\* the step ends the sleep that follows a cooldown: the next cycle starts
C39_CycleStartsAfterCooldown ==
    /\ pc = "sleep"
    /\ last_sleep.kind = "cooldown"
    /\ pc' = "cycle"

\* C39: in every state of the run loop the consecutive-failure counter is
\* between 0 and 5, and it is 0 when a cycle starts right after a
\* cooldown, also on the paths through the loop's generic exception
\* handler.
C39_CounterBounded ==
    /\ [](consecutive_failures \in 0..5)
    /\ [][C39_CycleStartsAfterCooldown => consecutive_failures' = 0]_vars

\* The same for an acquisition interval that time.sleep accepts.
CounterBoundedWhenSleepReturns ==
    /\ [](~interval_overflows => consecutive_failures \in 0..5)
    /\ [][(C39_CycleStartsAfterCooldown /\ ~interval_overflows)
              => consecutive_failures' = 0]_vars

\* the cycle got no reading it could use: the list read is empty or holds
\* only readings below the quality threshold, and nothing was raised
C40_FailsEarly ==
    /\ stats'.total_cycles # stats.total_cycles
    /\ cycle'.stage # "raised"
    /\ \A i \in 1..Len(cycle'.readings) :
          cycle'.readings[i].quality < min_quality_threshold

C40_OnlyTotalCycles ==
    C40_FailsEarly =>
        /\ ~cycle'.ret
        /\ data_buffer' = data_buffer
        /\ data_history' = data_history
        /\ anomaly_buffer' = anomaly_buffer
        /\ stats' = [stats EXCEPT !.total_cycles = @ + 1]

\* C40: a cycle that acquired no readings, or whose readings were all
\* rejected by validation, returns failure and leaves the storage buffer,
\* the history, the anomaly buffer and the counters total_data_points,
\* anomalies_detected and successful_cycles as they were; of the cycle
\* counters only total_cycles changes, by one.
C40_EarlyFailureFrame == [][C40_OnlyTotalCycles]_vars

\* the second cycle had its only reading rejected; the reading of the first
\* cycle is still in the buffer and in the history, counted once
C40_Witness ==
    /\ cycle.stage = "all_rejected"
    /\ cycle.readings # <<>>
    /\ stats.total_cycles = 2
    /\ stats.successful_cycles = 1
    /\ stats.total_data_points = 1
    /\ Len(data_history) = 1
    /\ Len(data_buffer) = 1

(***************************************************************************)
(* SpecPipeline: acquisition cycles of a system with a temperature and a   *)
(* pressure sensor, over values inside and outside the thresholds.         *)
(***************************************************************************)
PipelineTemperatures ==
    {BusAnswerOf(FALSE, 0, 0), BusAnswerOf(TRUE, 200, 100),
     BusAnswerOf(TRUE, 260, 100), BusAnswerOf(TRUE, 450, 100)}

PipelinePressures == {BusAnswerOf(TRUE, 10, 100), BusAnswerOf(TRUE, 14, 100)}

PipelineInit ==
    /\ batch_size = 2
    /\ max_buffer_size = 3
    /\ acquisition_interval = default_acquisition_interval
    /\ min_quality_threshold = default_min_quality_threshold
    /\ data_buffer = <<>>
    /\ next_ts = 1
    /\ store_call = NoStoreCall
    /\ connected = TRUE
    /\ sensor_nodes = <<FullNode("temperature"), FullNode("pressure")>>
    /\ client_stats = NewClientStats
    /\ conn = NoConnectCall
    /\ read_call = NoReadCall
    /\ DaqIdle
    /\ LoopIdle
    /\ ValidateIdle
    /\ SideIdle

CycleCall ==
    \E t \in PipelineTemperatures, p \in PipelinePressures, db_ok \in BOOLEAN :
        /\ stats.total_cycles < MaxPipelineCycles
        /\ acquisition_cycle([temperature |-> t, pressure |-> p], db_ok,
                             "none", {})
        /\ UNCHANGED loopVars

SpecPipeline == PipelineInit /\ [][CycleCall]_vars

C19_SameReading(stored, validated) ==
    /\ stored.timestamp = validated.timestamp
    /\ stored.sensor_type = validated.sensor_type
    /\ stored.value = validated.value
    /\ stored.unit = validated.unit
    /\ stored.quality = validated.quality
    /\ stored.status = validated.status
    /\ stored.anomaly = validated.anomaly

\* C19: in a cycle that reached the storage, the list handed to
\* store_readings has one entry per validated reading, in the same order
\* and with the same value, quality and status, whatever anomalies the
\* cycle has detected on them.
C19_AnomalyKeepsReading ==
    cycle.stage = "stored" =>
        /\ store_call.called
        /\ Len(store_call.readings) = Len(cycle.validated)
        /\ \A i \in 1..Len(cycle.validated) :
               C19_SameReading(store_call.readings[i], cycle.validated[i])

\* a cycle of two readings, the temperature out of range and deviating from
\* its average: two anomaly records, and both readings handed to the store
C19_Witness ==
    /\ cycle.stage = "stored"
    /\ Len(cycle.validated) = 2
    /\ cycle.validated[1].anomaly = "OUT_OF_RANGE"
    /\ \E k \in 1..Len(cycle.anomalies) :
           cycle.anomalies[k].anomaly_type = "HIGH_DEVIATION"
    /\ Len(store_call.readings) = 2
    /\ store_call.readings[1].value = 450

C9_PreviousValues(history, sensor_type) ==
    LET points == SelectSeq(LastN(history, 10),
                            LAMBDA point : point.sensor_type = sensor_type)
    IN  [i \in 1..Len(points) |-> points[i].value]

C9_Change(reading, history) ==
    LET previous == C9_PreviousValues(history, reading.sensor_type)
    IN  Abs(reading.value - previous[Len(previous)])

C9_Threshold(sensor_type) ==
    CASE sensor_type = "temperature" -> 50
      [] sensor_type = "pressure" -> 3
      [] sensor_type = "vibration" -> 5
      [] OTHER -> 10

\* C9 (as stated): a validated reading of a cycle whose value differs from
\* the preceding recorded value of its sensor type (among the last 10
\* entries of the history as it was before the cycle) by more than the
\* type's threshold gives a RAPID_CHANGE record carrying that difference.
C9_RapidChangeFlagged ==
    cycle.stage = "stored" =>
        \A i \in 1..Len(cycle.processed) :
            LET reading == cycle.processed[i]
                history == cycle.history_before
            IN  (/\ C9_PreviousValues(history, reading.sensor_type) # <<>>
                 /\ C9_Change(reading, history)
                        > C9_Threshold(reading.sensor_type))
                => \E k \in 1..Len(cycle.anomalies) :
                       /\ cycle.anomalies[k].anomaly_type = "RAPID_CHANGE"
                       /\ cycle.anomalies[k].sensor_type = reading.sensor_type
                       /\ cycle.anomalies[k].timestamp = reading.timestamp
                       /\ cycle.anomalies[k].change_rate
                              = C9_Change(reading, history)

(***************************************************************************)
(* SpecSimulator: IndustrialOPCServer.update_sensor_values                 *)
(* (opc_server.py:251-294) running in its thread while a client runs the   *)
(* body of the loop of read_sensor_data (opc_client.py:265-337) on the     *)
(* same sensor.  The server writes the four nodes with four set_value      *)
(* calls and the client reads them with four get_value calls; neither side *)
(* takes a lock, so every interleaving of the eight calls is a behaviour.  *)
(***************************************************************************)
\* opc_server.py:263-265  what calculate_realistic_value and datetime.now()
\* give at a tick of the update loop; tick 0 is the creation of the nodes
TickTuple(tick) ==
    IF tick = 0 THEN InitialNodes
    ELSE [value |-> 250 + tick, quality |-> 100 - tick,
          status |-> IF tick % 2 = 1 THEN "WARNING" ELSE "OK",
          timestamp |-> 1 + tick]

SimulatorInit ==
    /\ StoreIdle
    /\ BusIdle
    /\ DaqIdle
    /\ LoopIdle
    /\ ValidateIdle
    /\ CallIdle
    /\ LifeIdle
    /\ server_nodes = InitialNodes
    /\ sim = [tick |-> 0, pos |-> "value"]
    /\ reader = NoReader

SimulatorFrame ==
    UNCHANGED <<cfgVars, storeVars, busVars, daqVars, loopVars, validateVars,
                callVars, lifeVars>>

\* opc_server.py:265, 268  a new tick: the values are computed and
\* value_node.set_value(new_value)
SimSetValue ==
    /\ sim.pos = "value"
    /\ sim.tick < MaxTicks
    /\ sim' = [tick |-> sim.tick + 1, pos |-> "quality"]
    /\ server_nodes' =
           [server_nodes EXCEPT !.value = TickTuple(sim.tick + 1).value]
    /\ UNCHANGED reader
    /\ SimulatorFrame

\* opc_server.py:269  quality_node.set_value(quality)
SimSetQuality ==
    /\ sim.pos = "quality"
    /\ sim' = [sim EXCEPT !.pos = "status"]
    /\ server_nodes' =
           [server_nodes EXCEPT !.quality = TickTuple(sim.tick).quality]
    /\ UNCHANGED reader
    /\ SimulatorFrame

\* opc_server.py:270  status_node.set_value(status)
SimSetStatus ==
    /\ sim.pos = "status"
    /\ sim' = [sim EXCEPT !.pos = "timestamp"]
    /\ server_nodes' =
           [server_nodes EXCEPT !.status = TickTuple(sim.tick).status]
    /\ UNCHANGED reader
    /\ SimulatorFrame

\* opc_server.py:271, 288  timestamp_node.set_value(current_time), then the
\* sleep before the next tick
SimSetTimestamp ==
    /\ sim.pos = "timestamp"
    /\ sim' = [sim EXCEPT !.pos = "value"]
    /\ server_nodes' =
           [server_nodes EXCEPT !.timestamp = TickTuple(sim.tick).timestamp]
    /\ UNCHANGED reader
    /\ SimulatorFrame

\* opc_client.py:270, 279  nodes['value'].get_value()
BusReadValue ==
    /\ reader.pos = "value"
    /\ reader.reads < MaxBusReads
    /\ reader' = [reader EXCEPT !.pos = "quality", !.done = FALSE,
                                !.value = server_nodes.value]
    /\ UNCHANGED <<server_nodes, sim>>
    /\ SimulatorFrame

\* opc_client.py:285-286  nodes['quality'].get_value()
BusReadQuality ==
    /\ reader.pos = "quality"
    /\ reader' = [reader EXCEPT !.pos = "status",
                                !.quality = server_nodes.quality]
    /\ UNCHANGED <<server_nodes, sim>>
    /\ SimulatorFrame

\* opc_client.py:298-299  nodes['status'].get_value()
BusReadStatus ==
    /\ reader.pos = "status"
    /\ reader' = [reader EXCEPT !.pos = "timestamp",
                                !.status = server_nodes.status]
    /\ UNCHANGED <<server_nodes, sim>>
    /\ SimulatorFrame

\* opc_client.py:312-337  nodes['timestamp'].get_value(), then the reading
\* is built and appended
BusReadTimestamp ==
    /\ reader.pos = "timestamp"
    /\ reader' =
           [reader EXCEPT
              !.pos = "value", !.done = TRUE, !.reads = @ + 1,
              !.timestamp = server_nodes.timestamp,
              !.reading =
                  ReadOne(FullNode("temperature"),
                          [value_ok |-> TRUE, value |-> reader.value,
                           quality_ok |-> TRUE, quality |-> reader.quality,
                           status_ok |-> TRUE, status |-> reader.status,
                           ts_ok |-> TRUE, ts |-> server_nodes.timestamp],
                          0)]
    /\ UNCHANGED <<server_nodes, sim>>
    /\ SimulatorFrame

SpecSimulator ==
    SimulatorInit /\
    [][SimSetValue \/ SimSetQuality \/ SimSetStatus \/ SimSetTimestamp
       \/ BusReadValue \/ BusReadQuality \/ BusReadStatus
       \/ BusReadTimestamp]_vars

C12_TupleOf(reading) ==
    [value |-> reading.value, quality |-> reading.quality,
     status |-> reading.status, timestamp |-> reading.timestamp]

\* C12 (as stated): the (value, quality, status, timestamp) of a reading the
\* client has built is the tuple published by one single tick of the
\* simulator.
C12_NoTornRead ==
    reader.done =>
        \E tick \in 0..MaxTicks : C12_TupleOf(reader.reading) = TickTuple(tick)

(***************************************************************************)
(* IndustrialOPCClient.disconnect (opc_client.py:418-436) and              *)
(* IndustrialDAQSystem.shutdown (main.py:615-635).  What a call does is    *)
(* kept as the sequence of its steps: "stop" (self.running = False),       *)
(* "flush" (a call of insert_batch_readings, with the batch and whether it *)
(* was inserted), "close" (self.client.disconnect(), with whether it       *)
(* returned or raised) and "stats" (log_statistics).                       *)
(***************************************************************************)
FlushStep(batch, db_ok) ==
    [step |-> "flush", batch |-> batch,
     ok |-> insert_batch_readings(batch, db_ok) > 0]

PlainStep(step, ok) == [step |-> step, batch |-> <<>>, ok |-> ok]

\* opc_client.py:422-436  the buffer and the flag the call leaves, its steps
disconnect(buffer, is_connected, db_ok, close_ok) ==
    IF is_connected
    THEN [buffer |-> <<>>,
          connected |-> ~close_ok,
          log |-> (IF buffer # <<>> THEN <<FlushStep(buffer, db_ok)>> ELSE <<>>)
                  \o <<PlainStep("close", close_ok)>>]
    ELSE [buffer |-> buffer, connected |-> is_connected, log |-> <<>>]

FinalFlushAtBatchSize(buffer) == Len(buffer) >= batch_size

\* main.py:631  if opc_client.data_buffer:
FinalFlushDue(buffer) == buffer # <<>>

\* main.py:615-635
shutdown(buffer, is_connected, db_ok, close_ok, final_db_ok) ==
    LET d == disconnect(buffer, is_connected, db_ok, close_ok) IN
    [buffer |-> d.buffer,
     connected |-> d.connected,
     log |-> <<PlainStep("stop", TRUE)>> \o d.log
             \o <<PlainStep("stats", TRUE)>>
             \o (IF FinalFlushDue(d.buffer)
                 THEN <<FlushStep(d.buffer, final_db_ok)>> ELSE <<>>)]

TeardownInit ==
    /\ batch_size \in {1, 2}
    /\ max_buffer_size = 2
    /\ acquisition_interval = default_acquisition_interval
    /\ min_quality_threshold = default_min_quality_threshold
    /\ data_buffer = <<>>
    /\ next_ts = 1
    /\ store_call = NoStoreCall
    /\ connected \in BOOLEAN
    /\ sensor_nodes = <<>>
    /\ client_stats = NewClientStats
    /\ conn = NoConnectCall
    /\ read_call = NoReadCall
    /\ DaqIdle
    /\ running \in BOOLEAN
    /\ paused = FALSE
    /\ pc = "idle"
    /\ consecutive_failures = 0
    /\ last_sleep = NoSleep
    /\ failed_streak = 0
    /\ ValidateIdle
    /\ CallIdle
    /\ SimIdle
    /\ LifeIdle

\* main.py:615-635  the call on the state of the system
DoShutdown(db_ok, close_ok, final_db_ok) ==
    LET res == shutdown(data_buffer, connected, db_ok, close_ok, final_db_ok)
    IN  /\ running' = FALSE
        /\ data_buffer' = res.buffer
        /\ connected' = res.connected
        /\ teardown' = [op |-> "shutdown", pre_buffer |-> data_buffer,
                        pre_connected |-> connected, log |-> res.log,
                        calls |-> teardown.calls + 1]

ShutdownCall ==
    \E db_ok \in BOOLEAN, close_ok \in BOOLEAN, final_db_ok \in BOOLEAN :
        /\ teardown.calls < MaxTeardownCalls
        /\ DoShutdown(db_ok, close_ok, final_db_ok)
        /\ UNCHANGED <<next_ts, store_call, sensor_nodes, client_stats,
                       conn, read_call, paused, pc,
                       consecutive_failures, last_sleep, failed_streak,
                       cfgVars, daqVars, validateVars, callVars, simVars,
                       main_proc>>

DisconnectCall ==
    \E db_ok \in BOOLEAN, close_ok \in BOOLEAN :
        LET res == disconnect(data_buffer, connected, db_ok, close_ok)
        IN  /\ teardown.calls < MaxTeardownCalls
            /\ data_buffer' = res.buffer
            /\ connected' = res.connected
            /\ teardown' = [op |-> "disconnect", pre_buffer |-> data_buffer,
                            pre_connected |-> connected, log |-> res.log,
                            calls |-> teardown.calls + 1]
            /\ UNCHANGED <<next_ts, store_call, sensor_nodes, client_stats,
                           conn, read_call, loopVars,
                           cfgVars, daqVars, validateVars, callVars, simVars,
                           main_proc>>

\* store_readings on the client before it is torn down
TeardownStore ==
    /\ teardown.calls = 0
    /\ StoreReadingsCall

SpecTeardown ==
    TeardownInit /\ [][TeardownStore \/ ShutdownCall \/ DisconnectCall]_vars

C38_Readings(buffer) == {buffer[i] : i \in 1..Len(buffer)}

\* the step is a store_readings call whose batch insert went through, or a
\* disconnect() or shutdown() one of whose batch inserts held the reading
\* and went through
C38_Inserted(reading) ==
    \/ /\ store_call' # store_call
       /\ store_call'.attempted
       /\ store_call'.db_ok
    \/ /\ teardown' # teardown
       /\ \E k \in 1..Len(teardown'.log) :
             /\ teardown'.log[k].step = "flush"
             /\ teardown'.log[k].ok
             /\ reading \in C38_Readings(teardown'.log[k].batch)

\* the step is a store_readings call whose batch insert failed on a buffer
\* above max_buffer_size
C38_Evicted(reading) ==
    /\ store_call' # store_call
    /\ store_call'.attempted
    /\ ~store_call'.db_ok
    /\ Len(data_buffer) + Len(store_call'.readings) > max_buffer_size

C38_LeavesOnlyWrittenOrEvicted ==
    \A reading \in C38_Readings(data_buffer) :
        reading \notin C38_Readings(data_buffer')
            => C38_Inserted(reading) \/ C38_Evicted(reading)

\* C38: over any sequence of store_readings, disconnect and shutdown calls,
\* a reading of the buffer leaves it only as part of a batch insert that
\* succeeded or by the overflow eviction that follows a failed flush; no
\* reading is discarded after a failed batch insert on a buffer within
\* max_buffer_size.
C38_NoSilentLoss == [][C38_LeavesOnlyWrittenOrEvicted]_vars

\* The same for the store_readings calls alone.
NoSilentLossInStore ==
    [][store_call' # store_call => C38_LeavesOnlyWrittenOrEvicted]_vars

\* C26: after every disconnect() call, and after the disconnect() that
\* shutdown() makes, the client is Disconnected, also when closing the bus
\* raised an error.
C26_DisconnectedAfterDisconnect ==
    teardown.op \in {"disconnect", "shutdown"} => ~connected

C13_Rank(step) ==
    CASE step = "stop" -> 1
      [] step = "flush" -> 2
      [] step = "close" -> 3
      [] step = "stats" -> 4

C13_Has(log, step) == \E i \in 1..Len(log) : log[i].step = step

\* C13 (as stated): the steps of shutdown() come in the order stop, flush,
\* close, statistics, whatever the state it was called in, and a step is
\* not skipped because an earlier one failed: the loop is stopped, a
\* non-empty buffer is flushed, a connected client is closed, the statistics
\* are emitted.
C13_ShutdownOrder ==
    teardown.op = "shutdown" =>
        LET log == teardown.log IN
        /\ \A i \in 1..Len(log), j \in 1..Len(log) :
               i < j => C13_Rank(log[i].step) < C13_Rank(log[j].step)
        /\ C13_Has(log, "stop")
        /\ ~running
        /\ teardown.pre_buffer # <<>> => C13_Has(log, "flush")
        /\ teardown.pre_connected => C13_Has(log, "close")
        /\ C13_Has(log, "stats")

C14_Flushes(log) == {i \in 1..Len(log) : log[i].step = "flush"}

C14_OneFlushOfAll ==
    /\ Cardinality(C14_Flushes(teardown.log)) = 1
    /\ \A i \in C14_Flushes(teardown.log) :
           teardown.log[i].batch = teardown.pre_buffer

\* C14 (as stated): shutdown() or disconnect() called with a non-empty
\* buffer attempts exactly one batch insert, of the whole buffer.
C14_FinalFlushOnce ==
    (teardown.op \in {"shutdown", "disconnect"} /\ teardown.pre_buffer # <<>>)
        => C14_OneFlushOfAll

\* C14 (amended): shutdown() called with a non-empty buffer, and
\* disconnect() called on a connected client with a non-empty buffer,
\* attempt exactly one batch insert, of the whole buffer; disconnect() on a
\* client that is not connected attempts none and leaves the buffer as is.
C14_FinalFlushOnceWhenConnected ==
    /\ (/\ teardown.pre_buffer # <<>>
        /\ \/ teardown.op = "shutdown"
           \/ teardown.op = "disconnect" /\ teardown.pre_connected)
           => C14_OneFlushOfAll
    /\ (teardown.op = "disconnect" /\ ~teardown.pre_connected)
           => (teardown.log = <<>> /\ data_buffer = teardown.pre_buffer)

\* a shutdown of a client that is not connected, with a buffer below
\* batch_size: the one insert is attempted, fails and is not repeated
C14_Witness ==
    /\ teardown.op = "shutdown"
    /\ ~teardown.pre_connected
    /\ teardown.pre_buffer # <<>>
    /\ Len(teardown.pre_buffer) < batch_size
    /\ C14_OneFlushOfAll
    /\ \A i \in C14_Flushes(teardown.log) : ~teardown.log[i].ok

(***************************************************************************)
(* Startup: Config.validate (config.py:194-220), connect as a whole,       *)
(* discover_sensor_nodes (opc_client.py:106-227) and                       *)
(* IndustrialDAQSystem.initialize (main.py:67-116).                        *)
(***************************************************************************)
\* config.py:200-211  endpoints_ok: the database host, port and name and the
\* OPC UA endpoint pass their asserts
validate(endpoints_ok) ==
    /\ endpoints_ok
    /\ acquisition_interval > 0
    /\ batch_size > 0

\* opc_client.py:59-104  the call from entry to return; first_ok is the
\* attempt that succeeds, 0 when none does
connect(first_ok) ==
    [ret |-> first_ok > 0,
     attempts |-> IF first_ok > 0 THEN first_ok ELSE max_retries]

\* opc_client.py:229-248  a display name is kept as the keyword it contains
\* Names are sequences of characters.
UpperCase ==
    <<"A", "B", "C", "D", "E", "F", "G", "H", "I", "J", "K", "L", "M">> \o
    <<"N", "O", "P", "Q", "R", "S", "T", "U", "V", "W", "X", "Y", "Z">>

LowerCase ==
    <<"a", "b", "c", "d", "e", "f", "g", "h", "i", "j", "k", "l", "m">> \o
    <<"n", "o", "p", "q", "r", "s", "t", "u", "v", "w", "x", "y", "z">>

\* str.lower()
Lower(name) ==
    [i \in 1..Len(name) |->
        IF \E k \in 1..Len(UpperCase) : UpperCase[k] = name[i]
        THEN LowerCase[CHOOSE k \in 1..Len(UpperCase) : UpperCase[k] = name[i]]
        ELSE name[i]]

\* sub in name
Contains(name, sub) ==
    \E i \in 0..(Len(name) - Len(sub)) :
        SubSeq(name, i + 1, i + Len(sub)) = sub

determine_sensor_type_exact(display_name) ==
    LET display_name_lower == Lower(display_name) IN
    IF display_name_lower = <<"t", "e", "m", "p", "e", "r", "a", "t", "u", "r", "e">>
    THEN "temperature"
    ELSE IF display_name_lower = <<"p", "r", "e", "s", "s", "u", "r", "e">>
    THEN "pressure"
    ELSE IF display_name_lower = <<"v", "i", "b", "r", "a", "t", "i", "o", "n">>
    THEN "vibration"
    ELSE ""

\* opc_client.py:229-248  "" stands for None
determine_sensor_type(display_name) ==
    LET display_name_lower == Lower(display_name) IN
    IF \/ Contains(display_name_lower, <<"t", "e", "m", "p", "e", "r", "a", "t", "u", "r", "e">>)
       \/ Contains(display_name_lower, <<"t", "e", "m", "p">>)
    THEN "temperature"
    ELSE IF \/ Contains(display_name_lower, <<"p", "r", "e", "s", "s", "u", "r", "e">>)
            \/ Contains(display_name_lower, <<"p", "r", "e", "s", "s">>)
    THEN "pressure"
    ELSE IF \/ Contains(display_name_lower, <<"v", "i", "b", "r", "a", "t", "i", "o", "n">>)
            \/ Contains(display_name_lower, <<"v", "i", "b">>)
    THEN "vibration"
    ELSE ""

\* opc_client.py:199-217  the map after the sensor folder has been analysed
MapSensor(nodes, folder) ==
    LET sensor_type == determine_sensor_type(folder.display_name)
        entry == Node(sensor_type, folder.has_quality, folder.has_status,
                      folder.has_timestamp)
    IN  IF folder.has_value /\ sensor_type # ""
        THEN IF \E i \in 1..Len(nodes) : nodes[i].sensor_type = sensor_type
             THEN [i \in 1..Len(nodes) |->
                      IF nodes[i].sensor_type = sensor_type
                      THEN entry ELSE nodes[i]]
             ELSE Append(nodes, entry)
        ELSE nodes

\* opc_client.py:106-227  the value returned and self.sensor_nodes
discover_sensor_nodes(is_connected, nodes, topology) ==
    IF ~is_connected \/ topology.raises \/ ~topology.machine_folder
       \/ ~topology.sensors_folder
    THEN [ret |-> FALSE, nodes |-> nodes]
    ELSE LET RECURSIVE loop(_, _)
             \* opc_client.py:189, 225-227  get_children() of a sensor
             \* folder raises: the handler of the method returns False
             loop(i, mapped) ==
                 IF i > Len(topology.sensors)
                 THEN [ret |-> Len(mapped) > 0, nodes |-> mapped]
                 ELSE IF topology.sensors[i].browse_raises
                 THEN [ret |-> FALSE, nodes |-> mapped]
                 ELSE loop(i + 1, MapSensor(mapped, topology.sensors[i]))
         IN  loop(1, nodes)

\* config.py:76  "Temperature Sensor", the name of the simulator's folder
TemperatureSensor ==
    <<"T", "e", "m", "p", "e", "r", "a", "t", "u", "r", "e">> \o
    <<" ", "S", "e", "n", "s", "o", "r">>

\* a folder of a type the client does not know
HumiditySensor == <<"H", "u", "m", "i", "d", "i", "t", "y">>

SensorFolder(display_name, has_value) ==
    [display_name |-> display_name, has_value |-> has_value,
     has_quality |-> TRUE, has_status |-> TRUE, has_timestamp |-> TRUE,
     browse_raises |-> FALSE]

Topology(raises, machine_folder, sensors_folder, sensors) ==
    [raises |-> raises, machine_folder |-> machine_folder,
     sensors_folder |-> sensors_folder, sensors |-> sensors]

\* the address spaces a server can show: browsing raises, no machine
\* folder, no Sensors folder, a sensor of an unknown type, a sensor without
\* Value node, one temperature sensor
Topologies ==
    {Topology(TRUE, FALSE, FALSE, <<>>),
     Topology(FALSE, FALSE, FALSE, <<>>),
     Topology(FALSE, TRUE, FALSE, <<>>),
     Topology(FALSE, TRUE, TRUE, <<SensorFolder(HumiditySensor, TRUE)>>),
     Topology(FALSE, TRUE, TRUE, <<SensorFolder(TemperatureSensor, FALSE)>>),
     Topology(FALSE, TRUE, TRUE, <<SensorFolder(TemperatureSensor, TRUE)>>)}

\* main.py:73-116  the step at which initialize stops ("ready" when it
\* goes through), with what connect, discovery and the test read gave
initialize(endpoints_ok, db_ok, first_ok, topology, bus) ==
    LET conn_res == connect(first_ok)
        disc == discover_sensor_nodes(TRUE, sensor_nodes, topology)
        read == read_sensor_data(TRUE, disc.nodes, bus, next_ts)
        stage == IF ~validate(endpoints_ok) THEN "config"
                 ELSE IF ~db_ok THEN "database"
                 ELSE IF ~conn_res.ret THEN "connect"
                 ELSE IF ~disc.ret THEN "discover"
                 ELSE IF read.readings = <<>> THEN "read"
                 ELSE "ready"
        connecting == stage \notin {"config", "database"}
        discovering == connecting /\ stage # "connect"
        reading == discovering /\ stage # "discover"
    IN  [stage |-> stage,
         connect_ret |-> IF connecting
                         THEN (IF conn_res.ret THEN "True" ELSE "False")
                         ELSE "none",
         discover_ret |-> IF discovering
                          THEN (IF disc.ret THEN "True" ELSE "False")
                          ELSE "none",
         connected |-> IF connecting THEN (connected \/ conn_res.ret)
                       ELSE connected,
         attempts |-> IF connecting THEN conn_res.attempts ELSE 0,
         nodes |-> IF discovering THEN disc.nodes ELSE sensor_nodes,
         read |-> IF reading THEN read
                  ELSE [readings |-> <<>>, ok |-> 0, failed |-> 0,
                        touched |-> FALSE]]

(***************************************************************************)
(* SpecMain: main() (main.py:678-708) with the signal handler              *)
(* (main.py:666-676, the second definition, which replaces the first).     *)
(* main_proc.pc is "start" (handlers installed, no system yet),            *)
(* "initialize", "run_entry", "run", "finally" or "exited";                *)
(* main_proc.path says how the try block was left.  The configuration is   *)
(* what the environment gave, valid or not.                                *)
(***************************************************************************)
MainInit ==
    /\ batch_size \in {0, 1}
    /\ max_buffer_size \in {0, 2}
    /\ acquisition_interval \in {0, default_acquisition_interval}
    /\ min_quality_threshold \in {default_min_quality_threshold, 101}
    /\ data_buffer = <<>>
    /\ next_ts = 1
    /\ store_call = NoStoreCall
    /\ BusIdle
    /\ DaqIdle
    /\ LoopIdle
    /\ ValidateIdle
    /\ CallIdle
    /\ SimIdle
    /\ teardown = NoTeardown
    /\ main_proc = [NoProc EXCEPT !.pc = "start"]

MainFrame ==
    UNCHANGED <<cfgVars, validateVars, callVars, simVars, conn, read_call,
                avg_call>>

\* main.py:690  daq_system = IndustrialDAQSystem()
MainCreate ==
    /\ main_proc.pc = "start"
    /\ main_proc' = [main_proc EXCEPT !.pc = "initialize", !.created = TRUE]
    /\ UNCHANGED <<storeVars, busVars, daqVars, loopVars, teardown>>
    /\ MainFrame

MainEntersRunAlways(init_ret) == TRUE

\* main.py:692  if daq_system.initialize():
MainEntersRun(init_ret) == init_ret

\* main.py:692-699  initialize() and the branch on what it returned
MainInitialize ==
    \E endpoints_ok \in BOOLEAN, db_ok \in BOOLEAN, first_ok \in 0..max_retries,
       topology \in Topologies,
       bus \in [{"temperature"} ->
                  {BusAnswerOf(FALSE, 0, 0), BusAnswerOf(TRUE, 250, 100)}] :
        LET res == initialize(endpoints_ok, db_ok, first_ok, topology, bus)
            ret == res.stage = "ready"
        IN  /\ main_proc.pc = "initialize"
            /\ connected' = res.connected
            /\ sensor_nodes' = res.nodes
            /\ client_stats' =
                   StatsAfterRead(
                       [client_stats EXCEPT
                           !.connection_attempts = @ + res.attempts],
                       res.read)
            /\ next_ts' = IF res.read.touched THEN next_ts + 1 ELSE next_ts
            /\ main_proc' =
                   [main_proc EXCEPT
                      !.init_ret = IF ret THEN "True" ELSE "False",
                      !.init_stage = res.stage,
                      !.connect_ret = res.connect_ret,
                      !.discover_ret = res.discover_ret,
                      !.pc = IF MainEntersRun(ret) THEN "run_entry"
                             ELSE "finally",
                      !.path = IF MainEntersRun(ret) THEN "none"
                               ELSE "init_failed"]
            /\ UNCHANGED <<data_buffer, store_call, daqVars, loopVars,
                           teardown>>
            /\ MainFrame

\* main.py:577-580  the entry of run()
RunStart ==
    /\ main_proc.pc = "run_entry"
    /\ running' = TRUE
    /\ consecutive_failures' = 0
    /\ pc' = "cycle"
    /\ main_proc' = [main_proc EXCEPT !.pc = "run", !.entered_run = TRUE]
    /\ UNCHANGED <<paused, last_sleep, failed_streak, storeVars, busVars,
                   daqVars, teardown>>
    /\ MainFrame

MainCycle ==
    /\ main_proc.pc = "run"
    /\ stats.total_cycles < MaxMainCycles
    /\ RunCycle

MainSleep ==
    /\ main_proc.pc = "run"
    /\ IntervalSleep

\* main.py:605-607, 613  KeyboardInterrupt inside the loop: break, run()
\* returns
RunKeyboardInterrupt ==
    /\ main_proc.pc = "run"
    /\ main_proc' = [main_proc EXCEPT !.pc = "finally", !.path = "loop_ended"]
    /\ UNCHANGED <<storeVars, busVars, daqVars, loopVars, teardown>>
    /\ MainFrame

\* main.py:701-704  KeyboardInterrupt or an exception leaves initialize() or
\* run() and reaches the handlers of main()
MainInterrupted ==
    \E kind \in {"keyboard_interrupt", "exception"} :
        /\ main_proc.pc \in {"initialize", "run_entry", "run"}
        /\ main_proc' = [main_proc EXCEPT !.pc = "finally", !.path = kind]
        /\ UNCHANGED <<storeVars, busVars, daqVars, loopVars, teardown>>
        /\ MainFrame

FinallySkipsShutdown(created) == FALSE

\* main.py:672, 707  if daq_system:
SystemCreated(created) == created

\* main.py:666-676  SIGINT or SIGTERM: shutdown() when the system exists,
\* then sys.exit(0), whose SystemExit unwinds main() to its finally
SignalHandler ==
    \E db_ok \in BOOLEAN, close_ok \in BOOLEAN, final_db_ok \in BOOLEAN :
        /\ main_proc.pc \in {"start", "initialize", "run_entry", "run"}
        /\ IF main_proc.created
           THEN /\ DoShutdown(db_ok, close_ok, final_db_ok)
                /\ main_proc' = [main_proc EXCEPT
                                    !.pc = "finally", !.path = "signal",
                                    !.shutdown_calls = @ + 1]
           ELSE /\ main_proc' = [main_proc EXCEPT
                                    !.pc = "finally", !.path = "signal"]
                /\ UNCHANGED <<running, data_buffer, connected, teardown>>
        /\ UNCHANGED <<next_ts, store_call, sensor_nodes, client_stats,
                       paused, pc, consecutive_failures, last_sleep,
                       failed_streak, stats, data_history, anomaly_buffer,
                       cycle>>
        /\ MainFrame

\* main.py:705-708  finally: shutdown() when the system exists
MainFinally ==
    \E db_ok \in BOOLEAN, close_ok \in BOOLEAN, final_db_ok \in BOOLEAN :
        /\ main_proc.pc = "finally"
        /\ IF SystemCreated(main_proc.created)
           THEN /\ DoShutdown(db_ok, close_ok, final_db_ok)
                /\ main_proc' = [main_proc EXCEPT
                                    !.pc = "exited",
                                    !.shutdown_calls = @ + 1]
           ELSE /\ main_proc' = [main_proc EXCEPT !.pc = "exited"]
                /\ UNCHANGED <<running, data_buffer, connected, teardown>>
        /\ UNCHANGED <<next_ts, store_call, sensor_nodes, client_stats,
                       paused, pc, consecutive_failures, last_sleep,
                       failed_streak, stats, data_history, anomaly_buffer,
                       cycle>>
        /\ MainFrame

SpecMain ==
    MainInit /\
    [][MainCreate \/ MainInitialize \/ RunStart \/ MainCycle \/ MainSleep
       \/ RunKeyboardInterrupt \/ MainInterrupted \/ SignalHandler
       \/ MainFinally]_vars

\* C15: when main() has exited and the system object had been created,
\* shutdown() has been called, whatever the path: failed initialization,
\* end of the loop, keyboard interrupt, signal, exception.
C15_ShutdownOnEveryExit ==
    (main_proc.pc = "exited" /\ main_proc.created) =>
        /\ main_proc.path \in {"init_failed", "loop_ended",
                               "keyboard_interrupt", "signal", "exception"}
        /\ main_proc.shutdown_calls >= 1
        /\ teardown.op = "shutdown"
        /\ ~running

\* main() has left through an exception that escaped run(), and shutdown()
\* has run once
C15_Witness ==
    /\ main_proc.pc = "exited"
    /\ main_proc.created
    /\ main_proc.entered_run
    /\ main_proc.path = "exception"
    /\ main_proc.shutdown_calls = 1
    /\ teardown.op = "shutdown"

C16_InvalidConfiguration ==
    \/ acquisition_interval <= 0
    \/ batch_size <= 0
    \/ max_buffer_size <= 0
    \/ min_quality_threshold < 0
    \/ min_quality_threshold > 100

\* C16 (as stated): with an invalid configuration value initialize()
\* returns False and no acquisition cycle runs.
C16_InvalidConfigFailsFast ==
    (C16_InvalidConfiguration /\ main_proc.init_ret # "none") =>
        /\ main_proc.init_ret = "False"
        /\ ~main_proc.entered_run
        /\ stats.total_cycles = 0

\* C17: when connect() or discover_sensor_nodes() returned failure,
\* initialize() returned False and run() is never entered; a cycle has run
\* only after both returned success.
C17_StartupAborts ==
    /\ (main_proc.connect_ret = "False" \/ main_proc.discover_ret = "False")
           => (main_proc.init_ret = "False" /\ ~main_proc.entered_run)
    /\ (main_proc.entered_run \/ stats.total_cycles > 0)
           => /\ main_proc.connect_ret = "True"
              /\ main_proc.discover_ret = "True"
              /\ main_proc.init_ret = "True"

\* the bus was unreachable for the five attempts: main() has exited
\* without entering run()
C17_Witness ==
    /\ main_proc.pc = "exited"
    /\ main_proc.connect_ret = "False"
    /\ client_stats.connection_attempts = max_retries
    /\ main_proc.path = "init_failed"
    /\ ~main_proc.entered_run
    /\ stats.total_cycles = 0

(***************************************************************************)
(* SpecPause: the run loop of an initialized system with pause() and       *)
(* resume() called from outside at any moment between two steps of the     *)
(* loop.  The loop is a running thread: each of its steps is taken once it *)
(* stays possible (weak fairness); pause() and resume() are not obliged.   *)
(***************************************************************************)
PauseInit ==
    /\ Init
    /\ batch_size = 1

\* main.py:584-597  a cycle of the loop, within the budget of this
\* specification
PauseCycle ==
    /\ stats.total_cycles < MaxPauseCycles
    /\ RunCycle

PauseNext ==
    \/ PauseCycle
    \/ Cooldown
    \/ IntervalSleep
    \/ IntervalSleepRaises
    \/ PausedTick
    \/ Pause
    \/ Resume

SpecPause ==
    /\ PauseInit
    /\ [][PauseNext]_vars
    /\ WF_vars(PauseCycle)
    /\ WF_vars(Cooldown)
    /\ WF_vars(IntervalSleep)
    /\ WF_vars(IntervalSleepRaises)
    /\ WF_vars(PausedTick)

C21_NothingWhilePaused ==
    [][paused =>
         /\ stats' = stats
         /\ cycle' = cycle
         /\ UNCHANGED <<data_buffer, data_history, anomaly_buffer>>
         /\ UNCHANGED <<read_call, store_call, client_stats, next_ts>>
         /\ UNCHANGED <<connected, sensor_nodes>>]_vars

C21_CycleAfterResume ==
    \A n \in 0..(MaxPauseCycles - 1) :
        (running /\ ~paused /\ stats.total_cycles = n)
            ~> (paused \/ stats.total_cycles = n + 1)

SensorConfigs ==
    [temperature |-> [min_value |-> 15000, max_value |-> 45000,
                      base_value |-> 25000, noise_factor |-> 2000],
     pressure |-> [min_value |-> 800, max_value |-> 2500,
                   base_value |-> 1200, noise_factor |-> 100],
     vibration |-> [min_value |-> 100, max_value |-> 3000,
                    base_value |-> 800, noise_factor |-> 200],
     narrow |-> [min_value |-> 24000, max_value |-> 26000,
                 base_value |-> 25000, noise_factor |-> 2000]]

\* a configuration value in the unit of the computed values
Units(thousandths) == thousandths * 10000

\* opc_server.py:200, 203  math.sin at the multiples of pi/8, in thousandths
Sin(eighths) ==
    LET quarter == <<0, 383, 707, 924, 1000, 924, 707, 383>>
        j == eighths % 16
    IN  IF j < 8 THEN quarter[j + 1] ELSE 0 - quarter[j - 8 + 1]

\* opc_server.py:206  random.uniform(-1, 1), in thousandths
NoiseDraws == {0 - 1000, 0 - 400, 0, 400, 1000}

\* opc_server.py:225  random.randint(10, 30)
QualityLosses == {10, 30}

\* opc_server.py:232  random.randint(5, 15)
EdgeLosses == {5, 15}

\* opc_server.py:247  random.randint(0, 50)
ErrorQualities == {0, 50}

ClampValueUnbounded(lo, hi, v) == v

\* opc_server.py:217-218  max(min_value, min(max_value, calculated_value))
ClampValue(lo, hi, v) ==
    LET capped == IF v < hi THEN v ELSE hi
    IN  IF capped > lo THEN capped ELSE lo

\* opc_server.py:183-249  the elapsed time is step * 75 s: a quarter of the
\* 300 s cycle and a sixteenth of the 1200 s trend
\* draws holds what the random calls of the method return
calculate_realistic_value(config, step, draws) ==
    LET noise == draws.noise
        degrade == draws.degrade
        quality_loss == draws.quality_loss
        edge_loss == draws.edge_loss
        warn_draw == draws.warn_draw
        error_draw == draws.error_draw
        error_quality == draws.error_quality
        lo == Units(config.min_value)
        hi == Units(config.max_value)
        cycle_factor == Sin(4 * step)
        trend_sin == Sin(step)
        raw == Units(config.base_value)
                 + cycle_factor * config.noise_factor * 2 * 10
                 + trend_sin * config.noise_factor
                 + noise * config.noise_factor * 10
        calculated_value == ClampValue(lo, hi, raw)
        value_range == hi - lo
        at_edge == \/ calculated_value - lo < value_range \div 10
                   \/ calculated_value - lo > value_range - value_range \div 10
        base_quality == 100 - (IF degrade THEN quality_loss ELSE 0)
                            - (IF at_edge THEN edge_loss ELSE 0)
        capped == IF base_quality < 100 THEN base_quality ELSE 100
        quality == IF capped > 70 THEN capped ELSE 70
        near_limit == \/ calculated_value > (hi \div 10) * 9
                      \/ calculated_value < lo + lo \div 10
        status == IF quality < 80 THEN "WARNING"
                  ELSE IF near_limit /\ warn_draw THEN "WARNING"
                  ELSE "OK"
    IN  [raw |-> raw, value |-> calculated_value,
         quality |-> IF error_draw THEN error_quality ELSE quality,
         status |-> IF error_draw THEN "ERROR" ELSE status]

\* opc_server.py:117-160  the nodes as create_sensor_nodes leaves them:
\* Value = base_value, Quality = 100, Status = "OK"
GeneratorInit ==
    /\ StoreIdle
    /\ BusIdle
    /\ DaqIdle
    /\ LoopIdle
    /\ ValidateIdle
    /\ SimIdle
    /\ LifeIdle
    /\ severity_call = NoSeverityCall
    /\ discover_call = NoDiscoverCall
    /\ \E name \in DOMAIN SensorConfigs :
         generated =
           [sensor |-> name, step |-> 0,
            raw |-> Units(SensorConfigs[name].base_value),
            value |-> Units(SensorConfigs[name].base_value),
            quality |-> 100, status |-> "OK",
            min_value |-> Units(SensorConfigs[name].min_value),
            max_value |-> Units(SensorConfigs[name].max_value)]

\* opc_server.py:265-271  the next tick computes the values it publishes
Generate ==
    \E noise \in NoiseDraws, degrade \in BOOLEAN, quality_loss \in QualityLosses,
       edge_loss \in EdgeLosses, warn_draw \in BOOLEAN, error_draw \in BOOLEAN,
       error_quality \in ErrorQualities :
        LET out == calculate_realistic_value(
                       SensorConfigs[generated.sensor], generated.step + 1,
                       [noise |-> noise, degrade |-> degrade,
                        quality_loss |-> quality_loss,
                        edge_loss |-> edge_loss, warn_draw |-> warn_draw,
                        error_draw |-> error_draw,
                        error_quality |-> error_quality])
        IN  /\ generated.step < MaxElapsedSteps
            /\ generated' =
                 [generated EXCEPT
                    !.step = @ + 1, !.raw = out.raw, !.value = out.value,
                    !.quality = out.quality, !.status = out.status]
            /\ UNCHANGED <<cfgVars, storeVars, busVars, daqVars, loopVars,
                           validateVars, simVars, lifeVars, severity_call,
                           discover_call>>

SpecGenerator == GeneratorInit /\ [][Generate]_vars

\* C22: every value published for a sensor, the initial one included, lies
\* within the sensor's configured [min_value, max_value], at every elapsed
\* time and for every noise draw.
C22_ValueWithinConfiguredRange ==
    /\ generated.min_value <= generated.value
    /\ generated.value <= generated.max_value

\* a computed value that the noise and the cycle took past max_value and
\* that was published as max_value
C22_Witness ==
    /\ generated.step >= 1
    /\ generated.raw > generated.max_value
    /\ generated.value = generated.max_value

\* every quality the simulator publishes lies in 0..100
GeneratedQualityInRange == generated.quality \in 0..100

(***************************************************************************)
(* SpecAnomalies: acquisition cycles on a bus that can answer with values  *)
(* outside the validation ranges and with a quality outside 0..100, and a  *)
(* database that accepts or refuses each single-row insert.                *)
(***************************************************************************)

\* 20.0 and 45.0 degrees
AnomalyTemperatures ==
    {BusAnswerOf(TRUE, 200, 100), BusAnswerOf(TRUE, 450, 100)}

\* 1.4 and 3.0 bar; the Quality node is an Int32 that any bus client may
\* write (opc_server.py:140-146), 150 is a value outside the 0..100 scale
AnomalyPressures ==
    {BusAnswerOf(TRUE, 14, 100), BusAnswerOf(TRUE, 30, 100),
     BusAnswerOf(TRUE, 14, 150)}

AnomalyCycle ==
    \E t \in AnomalyTemperatures, p \in AnomalyPressures, db_ok \in BOOLEAN,
       failing_rows \in SUBSET (1..2) :
        /\ stats.total_cycles < MaxAnomalyCycles
        /\ acquisition_cycle([temperature |-> t, pressure |-> p], db_ok,
                             "none", failing_rows)
        /\ UNCHANGED loopVars

SpecAnomalies == PipelineInit /\ [][AnomalyCycle]_vars

C23_QualitiesOf(readings) ==
    {readings[i].quality : i \in 1..Len(readings)}

\* C23: every reading produced by read_sensor_data, and every reading that
\* went through validation and processing into the buffer and the history,
\* has a quality between 0 and 100.
C23_QualityInRange ==
    /\ C23_QualitiesOf(cycle.readings) \subseteq 0..100
    /\ C23_QualitiesOf(cycle.processed) \subseteq 0..100
    /\ C23_QualitiesOf(data_buffer) \subseteq 0..100
    /\ C23_QualitiesOf(data_history) \subseteq 0..100

PermittedStatuses == {"OK", "WARNING", "ERROR"}

\* C24: every row the cycle wrote to the storage (a single-row insert that
\* the database accepted, a reading handed to the batch insert) has a
\* status among OK, WARNING and ERROR.
C24_StatusPermitted ==
    /\ \A k \in 1..Len(cycle.db_calls) :
          (cycle.db_calls[k].op = "insert_sensor_reading"
               /\ cycle.db_calls[k].ok)
            => cycle.anomaly_rows[cycle.db_calls[k].anomaly].status
                   \in PermittedStatuses
    /\ \A i \in 1..Len(store_call.readings) :
          store_call.readings[i].status \in PermittedStatuses

C30_Inserts == Len(cycle.anomalies)

DiscoverNames ==
    {TemperatureSensor, HumiditySensor,
     <<"T", "E", "M", "P", "-", "1">>,
     <<"P", "r", "e", "s", "s">>,
     <<"P", "r", "e", "s", "s", "u", "r", "e", " ", "S", "e", "n", "s", "o", "r">>,
     <<"V", "i", "b", "_", "A">>,
     <<"T", "h", "e", "r", "m", "o">>}

\* a sensor folder whose get_children() raises
RaisingFolder(display_name) ==
    [SensorFolder(display_name, TRUE) EXCEPT !.browse_raises = TRUE]

DiscoverFolders ==
    {SensorFolder(n, v) : n \in DiscoverNames, v \in BOOLEAN}
    \cup {RaisingFolder(HumiditySensor)}

DiscoverTopologies ==
    {Topology(TRUE, FALSE, FALSE, <<>>)}
    \cup {Topology(FALSE, m, sf, <<>>) : m \in BOOLEAN, sf \in {FALSE}}
    \cup {Topology(FALSE, TRUE, TRUE, fs) :
             fs \in SeqsUpTo(DiscoverFolders, MaxSensorFolders)}

DiscoverInit ==
    /\ StoreIdle
    /\ DaqIdle
    /\ LoopIdle
    /\ ValidateIdle
    /\ SimIdle
    /\ LifeIdle
    /\ severity_call = NoSeverityCall
    /\ generated = NoGenerated
    /\ discover_call = NoDiscoverCall
    /\ connected \in BOOLEAN
    /\ sensor_nodes = <<>>
    /\ client_stats = NewClientStats
    /\ conn = NoConnectCall
    /\ read_call = NoReadCall

\* opc_client.py:106-227
DiscoverCall ==
    \E topology \in DiscoverTopologies :
        LET res == discover_sensor_nodes(connected, sensor_nodes, topology)
        IN  /\ ~discover_call.called
            /\ sensor_nodes' = res.nodes
            /\ discover_call' = [called |-> TRUE, connected |-> connected,
                                 ret |-> res.ret, topology |-> topology]
            /\ UNCHANGED <<connected, client_stats, conn, read_call,
                           cfgVars, storeVars, daqVars, loopVars,
                           validateVars, simVars, lifeVars, severity_call,
                           generated>>

SpecDiscover == DiscoverInit /\ [][DiscoverCall]_vars

C28_Keywords(sensor_type) ==
    CASE sensor_type = "temperature" ->
             {<<"t", "e", "m", "p", "e", "r", "a", "t", "u", "r", "e">>,
              <<"t", "e", "m", "p">>}
      [] sensor_type = "pressure" ->
             {<<"p", "r", "e", "s", "s", "u", "r", "e">>,
              <<"p", "r", "e", "s", "s">>}
      [] sensor_type = "vibration" ->
             {<<"v", "i", "b", "r", "a", "t", "i", "o", "n">>,
              <<"v", "i", "b">>}

C28_Names(sensor_type, folder) ==
    \E k \in C28_Keywords(sensor_type) : Contains(Lower(folder.display_name), k)

\* the folder has a Value node and a name of one of the three types
C28_Qualifies(folder) ==
    /\ folder.has_value
    /\ \E t \in SensorTypes : C28_Names(t, folder)

C28_Containers ==
    /\ discover_call.connected
    /\ discover_call.topology.machine_folder
    /\ discover_call.topology.sensors_folder

C28_Folders == discover_call.topology.sensors

\* the folders analysed: all of them, or those before the first one whose
\* browsing raised
C28_Analysed ==
    {i \in 1..Len(C28_Folders) :
        \A j \in 1..i : ~C28_Folders[j].browse_raises}

C28_Mapped == {sensor_nodes[i].sensor_type : i \in 1..Len(sensor_nodes)}

StopFrame ==
    UNCHANGED <<next_ts, store_call, sensor_nodes, client_stats, conn,
                read_call, paused, consecutive_failures, last_sleep,
                failed_streak, cfgVars, daqVars, validateVars, callVars,
                simVars, main_proc>>

StopCycle ==
    /\ stats.total_cycles < MaxStopCycles
    /\ RunCycle

\* main.py:582, 613  the while test fails and run() returns
LoopExit ==
    /\ pc = "cycle"
    /\ ~running
    /\ pc' = "stopped"
    /\ UNCHANGED <<running, paused, consecutive_failures, last_sleep,
                   failed_streak, cfgVars, storeVars, busVars, daqVars,
                   validateVars, sideVars>>

\* main.py:615-635  shutdown() called while the loop runs
ShutdownRequest ==
    \E db_ok \in BOOLEAN, close_ok \in BOOLEAN, final_db_ok \in BOOLEAN :
        /\ pc # "stopped"
        /\ teardown.calls < MaxTeardownCalls
        /\ DoShutdown(db_ok, close_ok, final_db_ok)
        /\ pc' = pc
        /\ StopFrame

\* main.py:666-676  the handler runs in the thread of the loop: shutdown(),
\* then sys.exit(0), which no handler of run() catches
TerminationSignal ==
    \E db_ok \in BOOLEAN, close_ok \in BOOLEAN, final_db_ok \in BOOLEAN :
        /\ pc # "stopped"
        /\ teardown.calls < MaxTeardownCalls
        /\ DoShutdown(db_ok, close_ok, final_db_ok)
        /\ pc' = "stopped"
        /\ StopFrame

StopNext ==
    \/ StopCycle
    \/ Cooldown
    \/ IntervalSleep
    \/ IntervalSleepRaises
    \/ PausedTick
    \/ LoopExit
    \/ Pause
    \/ Resume
    \/ ShutdownRequest
    \/ TerminationSignal

SpecStop ==
    /\ PauseInit
    /\ [][StopNext]_vars
    /\ WF_vars(StopCycle)
    /\ WF_vars(Cooldown)
    /\ WF_vars(IntervalSleep)
    /\ WF_vars(IntervalSleepRaises)
    /\ WF_vars(PausedTick)
    /\ WF_vars(LoopExit)

C29_Requested == teardown.op = "shutdown"

C29_NoCycleAfterRequest ==
    [][C29_Requested =>
         /\ stats'.total_cycles = stats.total_cycles
         /\ cycle' = cycle
         /\ read_call' = read_call
         /\ ~running'
         /\ pc = "stopped" => pc' = "stopped"]_vars

C29_LoopTerminates == C29_Requested ~> (pc = "stopped")

ProcessPoints ==
    {HistoryPoint(0, "temperature", -100), HistoryPoint(0, "temperature", 260),
     HistoryPoint(0, "pressure", 14)}

\* n points, temperature and pressure in turn, the oldest first
LongHistory(n) ==
    [i \in 1..n |->
        HistoryPoint(i - n, IF i % 2 = 0 THEN "temperature" ELSE "pressure",
                     IF i % 2 = 0 THEN 250 ELSE 14)]

ProcessHistories ==
    SeqsUpTo(ProcessPoints, 2)
    \cup {LongHistory(history_cap - k) : k \in 0..2}

\* -10.0, 10.0, 26.0 and 45.0 degrees, alone or followed by 3.0 bar
ProcessInputs ==
    LET temperatures == {Reading(next_ts, "temperature", v, 100) :
                            v \in {-100, 100, 260, 450}}
        pressure == Reading(next_ts, "pressure", 30, 100)
    IN  {<<t>> : t \in temperatures}
        \cup {<<t, pressure>> : t \in temperatures}

ProcessInit ==
    /\ StoreIdle
    /\ BusIdle
    /\ LoopIdle
    /\ ValidateIdle
    /\ SideIdle
    /\ stats = NewStats
    /\ data_history \in ProcessHistories
    /\ anomaly_buffer = <<>>
    /\ cycle = NoCycle
    /\ avg_call = NoAverageCall

ProcessFrame ==
    UNCHANGED <<anomaly_buffer, avg_call, data_buffer, store_call,
                cfgVars, busVars, loopVars, validateVars, sideVars>>

\* main.py:135, 141  validate_readings, then process_readings
ProcessCall ==
    \E readings \in ProcessInputs :
        LET validated == validate_readings(readings)
            proc == process_readings(validated, data_history)
        IN  /\ cycle.stage # "processed"
            /\ next_ts <= MaxProcessCalls
            /\ next_ts' = next_ts + 1
            /\ data_history' = proc.history
            /\ cycle' = [NoCycle EXCEPT !.ran = TRUE, !.stage = "processed",
                                        !.history_before = data_history,
                                        !.readings = readings,
                                        !.validated = validated,
                                        !.processed = proc.processed]
            /\ UNCHANGED stats
            /\ ProcessFrame

\* main.py:144, 375-377  detect_anomalies on the list just processed
DetectCall ==
    LET anomalies == detect_anomalies(cycle.processed, data_history)
    IN  /\ cycle.stage = "processed"
        /\ cycle' = [cycle EXCEPT !.stage = "detected",
                                  !.anomalies = anomalies]
        /\ stats' = [stats EXCEPT !.anomalies_detected = @ + Len(anomalies)]
        /\ UNCHANGED <<next_ts, data_history>>
        /\ ProcessFrame

\* main.py:317-379  detect_anomalies on readings annotated against the
\* history (moving average, deviation) and not appended to it
DetectDirect ==
    \E readings \in ProcessInputs :
        LET validated == validate_readings(readings)
            annotated == [i \in 1..Len(validated) |->
                             ProcessOne(validated[i], data_history)]
            anomalies == detect_anomalies(annotated, data_history)
        IN  /\ cycle.stage # "processed"
            /\ next_ts <= MaxProcessCalls
            /\ next_ts' = next_ts + 1
            /\ cycle' = [NoCycle EXCEPT !.ran = TRUE, !.stage = "direct",
                                        !.history_before = data_history,
                                        !.readings = readings,
                                        !.validated = validated,
                                        !.processed = annotated,
                                        !.anomalies = anomalies]
            /\ stats' = [stats EXCEPT
                           !.anomalies_detected = @ + Len(anomalies)]
            /\ UNCHANGED data_history
            /\ ProcessFrame

ProcessNext ==
    \/ ProcessCall
    \/ DetectCall
    \/ DetectDirect

SpecProcess == ProcessInit /\ [][ProcessNext]_vars

C31_Detected == cycle.stage \in {"detected", "direct"}

\* the records of the list that detect_anomalies returned for one reading
\* (the readings of one call have different sensor types)
C31_RecordsOf(anomalies, reading) ==
    SelectSeq(anomalies, LAMBDA a : a.sensor_type = reading.sensor_type)

\* main.py:429-441  a rapid change is detected: two values of the type among
\* the last 10 entries of the history, and the last of them further from
\* the reading than the threshold of the type
C31_RapidChangeDetected(reading, history) ==
    /\ Len(C9_PreviousValues(history, reading.sensor_type)) >= 2
    /\ C9_Change(reading, history) > C9_Threshold(reading.sensor_type)

C31_Expected(reading, history) ==
    (IF reading.anomaly # ""
     THEN <<[anomaly_type |-> reading.anomaly,
             severity |-> C11_Table(reading)]>>
     ELSE <<>>)
    \o (IF reading.high_deviation
        THEN <<[anomaly_type |-> "HIGH_DEVIATION", severity |-> "MEDIUM"]>>
        ELSE <<>>)
    \o (IF C31_RapidChangeDetected(reading, history)
        THEN <<[anomaly_type |-> "RAPID_CHANGE", severity |-> "HIGH"]>>
        ELSE <<>>)

C31_RecordsPerReading ==
    C31_Detected =>
        /\ \A i \in 1..Len(cycle.processed) :
              LET reading == cycle.processed[i]
                  records == C31_RecordsOf(cycle.anomalies, reading)
                  expected == C31_Expected(reading, data_history)
              IN  /\ Len(records) = Len(expected)
                  /\ Len(records) \in 0..3
                  /\ \A k \in 1..Len(records) :
                        /\ records[k].anomaly_type = expected[k].anomaly_type
                        /\ records[k].severity = expected[k].severity
                        /\ records[k].value = reading.value
                        /\ records[k].timestamp = reading.timestamp
        /\ \A k \in 1..Len(cycle.anomalies) :
              \E i \in 1..Len(cycle.processed) :
                  cycle.anomalies[k].sensor_type
                      = cycle.processed[i].sensor_type

C31_CounterFollows ==
    (cycle' # cycle /\ cycle'.stage \in {"detected", "direct"}) =>
        stats'.anomalies_detected
            = stats.anomalies_detected + Len(cycle'.anomalies)

\* C31: for each reading handed to detect_anomalies the method emits, in
\* this order, one record of the validation tag's type if the reading is
\* tagged, one HIGH_DEVIATION record of severity MEDIUM if high_deviation is
\* set, and one RAPID_CHANGE record of severity HIGH if a rapid change is
\* detected, between 0 and 3 records in all and no other record; each call
\* adds the number of records it emitted to anomalies_detected.
C31_OneRecordPerFinding ==
    /\ []C31_RecordsPerReading
    /\ [][C31_CounterFollows]_vars

\* 45.0 degrees after two readings of 26.0: out of range, far from the
\* moving average and a rapid change, three records for the one reading
C31_Witness ==
    /\ cycle.stage = "direct"
    /\ Len(cycle.processed) = 1
    /\ cycle.processed[1].value = 450
    /\ Len(cycle.anomalies) = 3
    /\ cycle.anomalies[1].anomaly_type = "OUT_OF_RANGE"
    /\ cycle.anomalies[2].anomaly_type = "HIGH_DEVIATION"
    /\ cycle.anomalies[3].anomaly_type = "RAPID_CHANGE"
    /\ stats.anomalies_detected >= 3

\* C32: for every reading that process_readings has annotated,
\* high_deviation is set if and only if |value - moving_average| is greater
\* than 0.1 x moving_average, whatever the moving average, zero and
\* negative averages included.  (moving_average is in sixtieths.)
C32_HighDeviationIff ==
    cycle.stage \in {"processed", "detected"} =>
        \A i \in 1..Len(cycle.processed) :
            LET reading == cycle.processed[i]
                deviation == Abs(reading.value * 60 - reading.moving_average)
            IN  reading.high_deviation
                    <=> deviation * 10 > reading.moving_average

\* The same for the averages that are not zero.
HighDeviationIffNonZero ==
    cycle.stage \in {"processed", "detected"} =>
        \A i \in 1..Len(cycle.processed) :
            LET reading == cycle.processed[i]
                deviation == Abs(reading.value * 60 - reading.moving_average)
            IN  reading.moving_average # 0 =>
                    (reading.high_deviation
                         <=> deviation * 10 > reading.moving_average)

\* a reading with a negative moving average is in the model
NegativeAverageProcessed ==
    /\ cycle.stage = "processed"
    /\ cycle.processed[1].moving_average < 0
    /\ cycle.processed[1].high_deviation

C33_InHistory(reading) ==
    \E j \in 1..Len(data_history) : data_history[j] = reading

\* C33: when detect_anomalies (and with it the rapid-change detection) is
\* about to run on the readings of a cycle, the history does not contain
\* any of them yet: a reading is appended only after every anomaly
\* computation for it has been made.
C33_AppendedAfterDetection ==
    cycle.stage = "processed" =>
        \A i \in 1..Len(cycle.processed) : ~C33_InHistory(cycle.processed[i])

\* C34: the history never holds more than 1000 entries, over all sensor
\* types; after a call of process_readings it is the history before the
\* call followed by the readings of the call, without its oldest entries
\* when that is more than 1000: the entries kept are the newest, in their
\* order.
C34_HistoryCapped ==
    /\ Len(data_history) <= 1000
    /\ cycle.stage \in {"processed", "detected"} =>
          LET extended == cycle.history_before \o cycle.processed
              removed == IF Len(extended) > 1000
                         THEN Len(extended) - 1000 ELSE 0
          IN  /\ Len(data_history) = Len(extended) - removed
              /\ \A i \in 1..Len(data_history) :
                    data_history[i] = extended[removed + i]

\* two readings processed on a history of 999 entries: the oldest entry is
\* gone, the second oldest is now the first, the two readings are the last
C34_Witness ==
    /\ cycle.stage = "processed"
    /\ Len(cycle.history_before) = 999
    /\ Len(cycle.processed) = 2
    /\ Len(data_history) = 1000
    /\ data_history[1] = cycle.history_before[2]
    /\ data_history[1] # cycle.history_before[1]
    /\ data_history[999] = cycle.processed[1]
    /\ data_history[1000] = cycle.processed[2]

(***************************************************************************)
(* SpecRetention: acquisition cycles of a system whose anomaly buffer is   *)
(* empty, one record below the retention of 100, or at it.  A cycle reads  *)
(* nothing, reads values in range or values that give anomaly records,     *)
(* stores or fails to store, or raises.                                    *)
(***************************************************************************)
\* n records of earlier cycles, the oldest first
RetainedAnomalies(n) ==
    [i \in 1..n |->
        AnomalyRecord(Reading(i - n, "temperature", 450, 100),
                      "HIGH_DEVIATION", "MEDIUM", 0)]

RetentionTemperatures == {BusAnswerOf(FALSE, 0, 0), BusAnswerOf(TRUE, 450, 100)}

RetentionPressures ==
    {BusAnswerOf(FALSE, 0, 0), BusAnswerOf(TRUE, 14, 100),
     BusAnswerOf(TRUE, 30, 100)}

RetentionInit ==
    /\ batch_size = 2
    /\ max_buffer_size = 3
    /\ acquisition_interval = default_acquisition_interval
    /\ min_quality_threshold = default_min_quality_threshold
    /\ data_buffer = <<>>
    /\ next_ts = 1
    /\ store_call = NoStoreCall
    /\ connected = TRUE
    /\ sensor_nodes = <<FullNode("temperature"), FullNode("pressure")>>
    /\ client_stats = NewClientStats
    /\ conn = NoConnectCall
    /\ read_call = NoReadCall
    /\ \E n \in {0, anomaly_retention - 1, anomaly_retention} :
          /\ anomaly_buffer = RetainedAnomalies(n)
          /\ stats = [NewStats EXCEPT !.anomalies_detected = n]
    /\ data_history = <<>>
    /\ cycle = NoCycle
    /\ avg_call = NoAverageCall
    /\ LoopIdle
    /\ ValidateIdle
    /\ SideIdle

RetentionCycle ==
    \E t \in RetentionTemperatures, p \in RetentionPressures,
       db_ok \in BOOLEAN, raise_at \in RaisePoints :
        /\ stats.total_cycles < MaxRetentionCycles
        /\ raise_at # "none" => stats.failed_cycles < MaxRaisedCycles
        /\ acquisition_cycle([temperature |-> t, pressure |-> p], db_ok,
                             raise_at, {})
        /\ UNCHANGED loopVars

SpecRetention == RetentionInit /\ [][RetentionCycle]_vars

C35_Detected == anomaly_buffer \o cycle'.anomalies

C35_Kept == IF Len(C35_Detected) > 100 THEN 100 ELSE Len(C35_Detected)

C35_NewestKept ==
    stats'.total_cycles # stats.total_cycles =>
        /\ Len(anomaly_buffer') = C35_Kept
        /\ \A i \in 1..C35_Kept :
              anomaly_buffer'[i]
                  = C35_Detected[Len(C35_Detected) - C35_Kept + i]

\* C35: at the end of every acquisition cycle, however it ended (no
\* readings, all rejected, stored, storage failed, exception caught), the
\* anomaly buffer holds at most 100 records, and they are the newest of the
\* records it held before the cycle followed by the records the cycle
\* detected, in their order.
C35_AnomalyBufferRetention ==
    /\ [](Len(anomaly_buffer) <= 100)
    /\ [][C35_NewestKept]_vars

\* a cycle that detected two anomalies on a buffer of 99 records: the
\* oldest record is gone, 100 are kept, the last two those of the cycle
C35_Witness ==
    /\ cycle.stage = "stored"
    /\ stats.total_cycles = 1
    /\ Len(cycle.anomalies) = 2
    /\ Len(anomaly_buffer) = 100
    /\ anomaly_buffer[1].timestamp = -97
    /\ anomaly_buffer[98].timestamp = 0
    /\ anomaly_buffer[99] = cycle.anomalies[1]
    /\ anomaly_buffer[100] = cycle.anomalies[2]

(***************************************************************************)
(* SpecRetry: store_readings called again and again, without end, by       *)
(* cycles that each deliver one or two validated readings, on a storage    *)
(* that accepts or fails.  The timestamp names a reading while it is in    *)
(* the buffer: the clock runs through MaxRetryStamps values and starts     *)
(* again, and a value is used again only after the reading that carried it *)
(* has left the buffer (RetryStampsFresh).  The calls go on for ever       *)
(* (acquisition_cycle calls store_readings in every cycle that has         *)
(* validated readings, main.py:149), hence the weak fairness.              *)
(***************************************************************************)
RetryStamp(k) == ((k - 1) % MaxRetryStamps) + 1

RetryReadings(n) ==
    [i \in 1..n |-> Reading(RetryStamp(next_ts + i - 1), "temperature", 250, 100)]

RetryInit ==
    /\ batch_size \in 1..3
    /\ max_buffer_size \in 1..2
    /\ acquisition_interval = default_acquisition_interval
    /\ min_quality_threshold = default_min_quality_threshold
    /\ data_buffer = <<>>
    /\ next_ts = 1
    /\ store_call = NoStoreCall
    /\ BusIdle
    /\ DaqIdle
    /\ LoopIdle
    /\ ValidateIdle
    /\ SideIdle

RetryStore ==
    \E n \in 1..2, db_ok \in BOOLEAN :
        LET readings == RetryReadings(n)
            res == StoreResult(data_buffer, readings, db_ok)
        IN  /\ data_buffer' = res.buffer
            /\ next_ts' = RetryStamp(next_ts + n)
            /\ store_call' = [called |-> TRUE, pre |-> data_buffer,
                              readings |-> readings,
                              db_ok |-> res.attempted /\ db_ok,
                              attempted |-> res.attempted, ret |-> res.ret]
            /\ UNCHANGED <<cfgVars, busVars, daqVars, loopVars, validateVars,
                           sideVars>>

SpecRetry == RetryInit /\ [][RetryStore]_vars /\ WF_vars(RetryStore)

C36_Stamps(readings) == {readings[i].timestamp : i \in 1..Len(readings)}

\* no two readings of the buffer carry the same timestamp
RetryStampsFresh == Cardinality(C36_Stamps(data_buffer)) = Len(data_buffer)

C36_InBuffer(ts) == ts \in C36_Stamps(data_buffer)

\* the last call handed the reading to a batch insert that succeeded
C36_Written(ts) ==
    /\ store_call.attempted
    /\ store_call.db_ok
    /\ store_call.ret
    /\ ts \in C36_Stamps(store_call.pre \o store_call.readings)
    /\ ~C36_InBuffer(ts)

\* the last call's insert failed and the overflow eviction removed the reading
C36_Evicted(ts) ==
    /\ store_call.attempted
    /\ ~store_call.db_ok
    /\ ts \in C36_Stamps(store_call.pre \o store_call.readings)
    /\ ~C36_InBuffer(ts)

\* the storage accepts: the last batch insert attempted went through
C36_StorageAccepts == store_call.attempted => store_call.db_ok

\* C36: if from some point on the storage accepts every batch insert, and
\* cycles keep calling store_readings with validated readings, then every
\* reading that is in the buffer (kept there by a failed flush, or waiting
\* for the batch to fill) is eventually handed to a batch insert that
\* succeeds, unless the overflow eviction of a failed flush removes it
\* first.
C36_RetainedEventuallyWritten ==
    (<>[]C36_StorageAccepts) =>
        \A ts \in 1..MaxRetryStamps :
            C36_InBuffer(ts) ~> (C36_Written(ts) \/ C36_Evicted(ts))

\* The same without the premise: on a storage that keeps failing, the
\* readings of later cycles push every reading out of the buffer.
RetainedWrittenWhateverStorage ==
    \A ts \in 1..MaxRetryStamps :
        C36_InBuffer(ts) ~> (C36_Written(ts) \/ C36_Evicted(ts))

\* batch_size 1, so every call flushes: a reading that a failed flush had
\* left in the buffer has been written by the call that followed
C36_Witness ==
    /\ batch_size = 1
    /\ store_call.called
    /\ store_call.pre # <<>>
    /\ store_call.attempted
    /\ store_call.db_ok
    /\ data_buffer = <<>>
    /\ C36_Written(store_call.pre[1].timestamp)

(***************************************************************************)
(* SpecValidate: validate_readings applied to every list of at most        *)
(* MaxValidateLen raw readings.                                            *)
(***************************************************************************)
ValidateTypeValues ==
    ({"temperature"} \X {179, 180, 400, 450})
    \cup ({"pressure"} \X {8, 9, 20, 21})
    \cup ({"vibration"} \X {25, 26})
    \cup ({"humidity"} \X {450})

ValidateQualities == {0, 79, 80, 100}

RawReadings ==
    {Reading(0, tv[1], tv[2], q) : tv \in ValidateTypeValues, q \in ValidateQualities}

ValidateInit ==
    /\ StoreIdle
    /\ BusIdle
    /\ DaqIdle
    /\ LoopIdle
    /\ SideIdle
    /\ validate_in \in SeqsUpTo(RawReadings, MaxValidateLen)
    /\ validate_out = <<>>
    /\ validate_done = FALSE

ValidateCall ==
    /\ ~validate_done
    /\ validate_out' = validate_readings(validate_in)
    /\ validate_done' = TRUE
    /\ UNCHANGED <<validate_in, cfgVars, storeVars, busVars, daqVars,
                   loopVars, sideVars>>

SpecValidate == ValidateInit /\ [][ValidateCall]_vars

\* C3: validate_readings never returns a reading whose quality is below
\* min_quality_threshold, whatever the reading's value or sensor type.
C3_LowQualityAbsent ==
    validate_done =>
        \A i \in 1..Len(validate_out) :
            validate_out[i].quality >= min_quality_threshold

\* A list holding a low-quality reading and a good one was validated, and
\* only the good one came back.
C3_Witness ==
    /\ validate_done
    /\ Len(validate_in) = 2
    /\ validate_in[1].quality < min_quality_threshold
    /\ validate_in[2].quality >= min_quality_threshold
    /\ Len(validate_out) = 1

C4_Kept(readings) ==
    SelectSeq(readings, LAMBDA r : r.quality >= min_quality_threshold)

C4_Tag(r) ==
    CASE r.sensor_type = "temperature"
           /\ (r.value < temperature_min \/ r.value > temperature_max)
           -> "OUT_OF_RANGE"
      [] r.sensor_type = "pressure"
           /\ (r.value < pressure_min \/ r.value > pressure_max)
           -> "OUT_OF_RANGE"
      [] r.sensor_type = "vibration" /\ r.value > vibration_max
           -> "HIGH_VIBRATION"
      [] OTHER -> ""

\* C4: validate_readings retains every reading whose quality is at least
\* min_quality_threshold, in input order; a temperature or pressure reading
\* outside [min, max] is kept and tagged OUT_OF_RANGE, a vibration reading
\* above vibration_max is kept and tagged HIGH_VIBRATION, and any other
\* retained reading carries no tag.
C4_RetainedAndTagged ==
    validate_done =>
        LET kept == C4_Kept(validate_in) IN
        /\ Len(validate_out) = Len(kept)
        /\ \A i \in 1..Len(kept) :
               /\ validate_out[i].sensor_type = kept[i].sensor_type
               /\ validate_out[i].value = kept[i].value
               /\ validate_out[i].quality = kept[i].quality
               /\ validate_out[i].anomaly = C4_Tag(kept[i])

\* Temperature 45.0 with maximum 40.0 and good quality was validated: it is
\* in the output, tagged OUT_OF_RANGE, next to a vibration reading above
\* its maximum tagged HIGH_VIBRATION.
C4_Witness ==
    /\ validate_done
    /\ Len(validate_in) = 2
    /\ validate_in[1] = Reading(0, "temperature", 450, 100)
    /\ validate_in[2] = Reading(0, "vibration", 26, 80)
    /\ Len(validate_out) = 2
    /\ validate_out[1].value = 450
    /\ validate_out[1].anomaly = "OUT_OF_RANGE"
    /\ validate_out[2].anomaly = "HIGH_VIBRATION"

====
